---------------------------- MODULE Spec2Model ----------------------------
(***************************************************************************)
(* A model of FileBackup: the snapshot tree and its diff engine            *)
(* (Snapshot.py), the mirror engine and its two-phase commit (Mirror.py,   *)
(* Impl/Common.py, DataStore/FileSystemDataStore.py) and the offsite       *)
(* engine with its restore replay (Offsite.py).                            *)
(*                                                                         *)
(* Nine specifications share the module:                                   *)
(*   SpecDiff      - Snapshot.Diff applied to every pair of bounded trees  *)
(*   SpecMirror    - Mirror.Backup, step by step and killable, and Cleanup *)
(*   SpecOffsite   - Offsite.Backup, Commit and Restore over a chain       *)
(*   SpecCalculate - the hashing tasks of Snapshot.Calculate while a       *)
(*                   source file is deleted                                *)
(*   SpecPreserve  - the content copies of one Offsite.Backup              *)
(*   SpecRestore   - Offsite.Restore of a chain, instruction by            *)
(*                   instruction and commit action by commit action        *)
(*   SpecTree      - sequences of Snapshot.Node.AddFile and AddDir calls   *)
(*   SpecFilter    - the filter of Common.CreateFilterFunc on one path     *)
(*   SpecDeliver   - Offsite.Backup to a destination, step by step, each   *)
(*                   step failing or not, and the run after it             *)
(* Each one holds the variables of the others at their idle values.        *)
(***************************************************************************)
EXTENDS Integers, Sequences, FiniteSets, TLC

VARIABLES
    \* SpecDiff
    dThis,          \* the snapshot Diff is called on ("self")
    dOther,         \* the snapshot it is compared with ("other")
    dCompareHashes, \* the compare_hashes argument
    dDiffs,         \* the DiffResults that Diff builds, in order
    dDone,          \* whether Diff has run
    dRaised,        \* an assertion of DiffResult failed: nothing was yielded
    dLoaded         \* other as persisted and loaded again, or NoNode

VARIABLES
    \* SpecMirror: the inputs of the current Backup run
    mSrc,             \* the source file system
    mExcludes,        \* file_excludes
    mForce,           \* force
    \* the destination directory
    mFs,              \* its directory tree (Content and below)
    mSnapshot,        \* BackupSnapshot.json
    mPendingSnapshot, \* BackupSnapshot.json.__pending_commit__
    mTempSnapshot,    \* BackupSnapshot.json.__temp__.__pending_commit__
    \* the locals of Backup
    mPc,              \* where Backup is
    mLocal,           \* local_snapshot
    mDiffs,           \* diffs
    mTodo,            \* tasks of the current TransformTasks call not yet taken
    mRunning,         \* tasks a worker is in, each with the step it is at
    mPendingCommit,   \* pending_commit_items (those not None)
    mPendingDelete,   \* pending_delete_items (those not None)
    mResult,          \* dm.result
    mPhases,          \* the TransformTasks phases this run has entered, in order
    \* history
    mPre,             \* mFs when the current run began
    mPreSnapshot,     \* mSnapshot when the current run began
    mRuns,            \* Backup runs begun
    mOutcome,         \* how the last run ended
    mCall,            \* what the Backup call just begun or rejected was decided on
    mClean            \* what the last Cleanup found: [ran, fs, pending, temp]

diffVars == <<dThis, dOther, dCompareHashes, dDiffs, dDone, dRaised, dLoaded>>

mirrorVars ==
    <<mSrc, mExcludes, mForce, mFs, mSnapshot, mPendingSnapshot, mTempSnapshot,
      mPc, mLocal, mDiffs, mTodo, mRunning, mPendingCommit, mPendingDelete,
      mResult, mPhases, mPre, mPreSnapshot, mRuns, mOutcome, mCall, mClean>>

\* Offsite: the snapshot files of one backup name, the offsite location,
\* and the target of Restore
VARIABLES
    oStandard,        \* OffsiteFileBackup.<name>.json
    oPending,         \* OffsiteFileBackup.<name>.__pending__.json
    oChain,           \* the backup directories at the offsite location, by name
    oStaged,          \* the directory left in working_dir when destination is None
    oTarget,          \* the file system Restore writes to
    \* history
    oLast,            \* the last Backup or Commit: what it was given and found
    oRestore,         \* the Restore calls made and the last one's result
    oRuns             \* Backup calls that wrote a directory

offsiteVars == <<oStandard, oPending, oChain, oStaged, oLast, oTarget, oRestore, oRuns>>


\* Calculate: the source and the locals of one call
VARIABLES
    cFs,              \* the source file system
    cCalculateHashes, \* calculate_hashes
    cPc,              \* where Calculate is
    cFilenames,       \* the filenames of all_input_infos, in order
    cEmptyDirs,       \* the empty_dirs of all_input_infos
    cTodo,            \* hashing tasks not yet taken, by index in cFilenames
    cRunning,         \* hashing tasks a worker is in, each with its step
    cInfos,           \* file_infos: what each task returned
    cResult,          \* hashes_dm.result
    cSnapshot,        \* the root of the snapshot returned, or NoNode
    \* history
    cStart,           \* the source when Calculate was called
    cDeleted          \* the files deleted since discovery

calcVars ==
    <<cFs, cCalculateHashes, cPc, cFilenames, cEmptyDirs, cTodo, cRunning, cInfos,
      cResult, cSnapshot, cStart, cDeleted>>

\* Offsite.Backup, "Preparing file content...": the locals of one call
VARIABLES
    pSrc,             \* the local file system
    pOffsite,         \* offsite_snapshot
    pDiffs,           \* the add and modify diffs, chained
    pLookup,          \* offsite_file_lookup
    pIndex,           \* diffs the gathering loop has looked at
    pToProcess,       \* diffs_to_process
    pPc,              \* where Backup is
    pTodo,            \* copy tasks not yet taken, by index in pToProcess
    pRunning,         \* copy tasks a worker is in, each with its step
    pStore,           \* the names in file_content_data_store
    pResult,          \* preserve_dm.result
    \* history
    pCopied           \* the tasks that wrote content, each with the hash it wrote

preserveVars ==
    <<pSrc, pOffsite, pDiffs, pLookup, pIndex, pToProcess, pPc, pTodo, pRunning,
      pStore, pResult, pCopied>>

\* Offsite.Restore: the arguments and the locals of one call
VARIABLES
    rChain,           \* the backup directories at the offsite location
    rBefore,          \* the target when Restore was called
    rOverwrite,       \* overwrite
    rContinue,        \* continue_on_errors
    rDryRun,          \* dry_run
    rCwd,             \* whether the current directory is the target
    rTarget,          \* the file system Restore writes to
    rPc,              \* where Restore is
    rInstructions,    \* instructions: one list per replayed directory
    rDir,             \* the directory the processing loop is at
    rIdx,             \* the instruction the processing loop is at
    rDirResult,       \* instructions_dm.result of the directory the loop is at
    rActions,         \* commit_actions
    rRan,             \* the commit actions run so far
    \* history
    rProcessed        \* the origins of the instructions handed to their function

restoreVars ==
    <<rChain, rBefore, rOverwrite, rContinue, rDryRun, rCwd, rTarget, rPc,
      rInstructions, rDir, rIdx, rDirResult, rActions, rRan, rProcessed>>

\* Snapshot.Node: one root and the AddFile and AddDir calls made on it
VARIABLES
    tRoot,            \* the root node
    tCalls,           \* the calls made
    tRaised,          \* whether the last call raised (the assertion of _AddImpl)
    tLast             \* the last call: its path, leaf and force

treeVars == <<tRoot, tCalls, tRaised, tLast>>

\* Common.CreateFilterFunc: its arguments, a path, and what the filter says
VARIABLES
    fIncludes,        \* file_includes
    fExcludes,        \* file_excludes
    fPath,            \* the file the scan asks about
    fResult           \* "todo", then "kept" or "dropped"

filterVars == <<fIncludes, fExcludes, fPath, fResult>>

\* Offsite.Backup with a destination: the snapshot file, the arguments and
\* the locals of the current call
VARIABLES
    bStandard,        \* OffsiteFileBackup.<name>.json
    bPc,              \* where Backup is
    bLocal,           \* local_snapshot
    bForce,           \* force
    bCommit,          \* commit_pending_snapshot
    bCompress,        \* compress or encryption_password
    bDiffs,           \* diffs
    bPrimary,         \* whether file_content_root is named without DELTA_SUFFIX
    bResult,          \* dm.result
    bOffsite,         \* the directories of this backup name at the destination
    bKept,            \* the directories left in working_dir
    \* history
    bStart,           \* bStandard when the current call began
    bPrev,            \* the call before the current one
    bRuns             \* Backup calls begun

deliverVars ==
    <<bStandard, bPc, bLocal, bForce, bCommit, bCompress, bDiffs, bPrimary, bResult,
      bOffsite, bKept, bStart, bPrev, bRuns>>
-----------------------------------------------------------------------------
(* Bounds and small helpers *)

\* The number of distinct file contents
NumContents == 2

Contents == 1..NumContents

\* hashlib.sha512 over a file's bytes: distinct contents, distinct digests
HashOf(c) == 11 * c

\* A file's size in bytes: contents 1 and 2 differ in size, contents 2 and 3
\* have the same size
SizeOf(c) == 17 + c \div 2

\* The names of entries directly under a backed-up directory
TopNames == {"a", "b"}

\* The names of entries one level further down
InnerNames == {"a"}

Range(s) == {s[i] : i \in DOMAIN s}

IsPrefix(p, q) == Len(p) <= Len(q) /\ SubSeq(q, 1, Len(p)) = p

IsProperPrefix(p, q) == Len(p) < Len(q) /\ SubSeq(q, 1, Len(p)) = p

Parent(p) == SubSeq(p, 1, Len(p) - 1)

Last(p) == p[Len(p)]

\* A set of sequences put in one sequence, in any fixed order
RECURSIVE SeqOfSet(_)
SeqOfSet(S) ==
    IF S = {} THEN << >>
    ELSE LET x == CHOOSE y \in S : TRUE IN <<x>> \o SeqOfSet(S \ {x})

-----------------------------------------------------------------------------
(* Snapshot.Node *)

\* hash_value of a directory
DirHashPlaceholder == 0

\* None, for a hash or a file size
None == -1

\* "no node": other is None in CreateDiffs, dict.get(name, None)
NoNode == [kind |-> "none", hash |-> None, size |-> None, explicit |-> FALSE,
           children |-> << >>]

FileNode(hash, size) ==
    [kind |-> "file", hash |-> hash, size |-> size, explicit |-> FALSE,
     children |-> << >>]

\* children is the dict of the node in its insertion order: <<[name, node], ...>>
DirNode(explicit, children) ==
    [kind |-> "dir", hash |-> DirHashPlaceholder, size |-> None,
     explicit |-> explicit, children |-> children]

\* hash_value = "not calculated", of every file when Calculate is called
\* with calculate_hashes=False
NotCalculated == 1

\* Snapshot.Node(None, None, DirHashPlaceholder(explicitly_added=False), None)
EmptyRoot == DirNode(FALSE, << >>)

ChildNames(node) == {node.children[i].name : i \in DOMAIN node.children}

\* node.children.get(name, None)
GetChild(node, name) ==
    IF name \in ChildNames(node)
    THEN (CHOOSE c \in Range(node.children) : c.name = name).node
    ELSE NoNode

\* node.children[name] = child: a new key goes last, an old key keeps its place
SetChild(node, name, child) ==
    IF name \in ChildNames(node)
    THEN [node EXCEPT !.children =
            [i \in DOMAIN node.children |->
                IF node.children[i].name = name
                THEN [name |-> name, node |-> child]
                ELSE node.children[i]]]
    ELSE [node EXCEPT !.children = Append(@, [name |-> name, node |-> child])]

\* _AddImpl, below its first path.parent part: walk or create the
\* intermediate directories, then assign the leaf.  ok is the assertion
\* "force or path.name not in node.children".
RECURSIVE AddImplAt(_, _, _, _)
AddImplAt(node, path, leaf, force) ==
    IF Len(path) = 1
    THEN [ok |-> force \/ path[1] \notin ChildNames(node),
          node |-> SetChild(node, path[1], leaf)]
    ELSE LET old == GetChild(node, path[1])
             sub == IF old.kind = "none" THEN DirNode(FALSE, << >>) ELSE old
             r == AddImplAt(sub, SubSeq(path, 2, Len(path)), leaf, force)
         IN [ok |-> r.ok, node |-> SetChild(node, path[1], r.node)]

AddImpl(root, path, leaf, force) == AddImplAt(root, path, leaf, force)

AddFile(root, path, hash, size, force) ==
    AddImpl(root, path, FileNode(hash, size), force)

AddDir(root, path, force) == AddImpl(root, path, DirNode(TRUE, << >>), force)

\* Node.Enum as the set of (path, node) of every node but the root
RECURSIVE EnumAt(_, _)
EnumAt(node, path) ==
    UNION {
        {[path |-> Append(path, c.name), node |-> c.node]}
            \cup EnumAt(c.node, Append(path, c.name)) : c \in Range(node.children)
    }

Enum(root) == EnumAt(root, << >>)

\* Node.__eq__ (the dataclass's, with parent left out and
\* DirHashPlaceholder.__eq__ ignoring explicitly_added; dicts compare without
\* their order)
RECURSIVE NodeEq(_, _)
NodeEq(x, y) ==
    /\ x.kind = y.kind
    /\ x.hash = y.hash
    /\ x.size = y.size
    /\ ChildNames(x) = ChildNames(y)
    /\ \A n \in ChildNames(x) : NodeEq(GetChild(x, n), GetChild(y, n))

ToJsonWithoutChildren(node) ==
    IF node.kind = "file"
    THEN [hash_value |-> node.hash, file_size |-> node.size, children |-> << >>]
    ELSE [hash_value |-> None, file_size |-> None, children |-> << >>]

\* Node.ToJson: {"hash_value": ..., "file_size": ...} or
\* {"hash_value": null, "children": {...}}; explicitly_added is not written
RECURSIVE ToJson(_)
ToJson(node) ==
    IF node.kind = "file"
    THEN [hash_value |-> node.hash, file_size |-> node.size, children |-> << >>]
    ELSE [hash_value |-> None, file_size |-> None,
          children |-> [i \in DOMAIN node.children |->
                          [name |-> node.children[i].name,
                           node |-> ToJson(node.children[i].node)]]]

\* Node.FromJson: a directory is explicitly added iff it has no children
RECURSIVE FromJson(_)
FromJson(value) ==
    IF value.hash_value # None
    THEN FileNode(value.hash_value, value.file_size)
    ELSE DirNode(value.children = << >>,
                 [i \in DOMAIN value.children |->
                    [name |-> value.children[i].name,
                     node |-> FromJson(value.children[i].node)]])

-----------------------------------------------------------------------------
(* Common.DiffResult and Snapshot.Node.CreateDiffs *)

DiffResultBothSides(op, path, thisHash, thisSize, otherHash, otherSize) ==
    [operation |-> op, path |-> path, this_hash |-> thisHash,
     this_file_size |-> thisSize,
     other_hash |-> IF op = "add" THEN thisHash ELSE otherHash,
     other_file_size |-> IF op = "add" THEN thisSize ELSE otherSize]

DiffResult(op, path, thisHash, thisSize, otherHash, otherSize) ==
    [operation |-> op, path |-> path, this_hash |-> thisHash,
     this_file_size |-> thisSize, other_hash |-> otherHash,
     other_file_size |-> otherSize]

CompareFuncNever(compareHashes, x, y) == FALSE

\* CompareFunc of Snapshot.Diff
CompareFunc(compareHashes, x, y) ==
    IF compareHashes THEN x.hash = y.hash ELSE x.size = y.size

\* UpdateAtomicResult: None is both "nothing seen yet" and "this child is
\* unchanged"
UpdateAtomicResult(atomic, result) ==
    IF atomic = "none" THEN result
    ELSE IF result # atomic THEN "modify"
    ELSE atomic

\* the first loop of the directory case: a remove for every child of other
\* that self does not have
RECURSIVE RemovedChildren(_, _, _, _)
RemovedChildren(self, other, path, i) ==
    IF i > Len(other.children) THEN [diffs |-> << >>, result |-> "none"]
    ELSE LET c == other.children[i]
             rest == RemovedChildren(self, other, path, i + 1)
         IN IF c.name \in ChildNames(self) THEN rest
            ELSE [diffs |-> <<DiffResult("remove", Append(path, c.name), None, None,
                                         c.node.hash, c.node.size)>> \o rest.diffs,
                  result |-> "remove"]

\* "if other is None": a directory with children yields the adds of its
\* children and none of its own; a file or a directory without children
\* yields its own add
OwnAddAlways(self, path) ==
    <<DiffResult("add", path, self.hash, self.size, None, None)>>

OwnAdd(self, path) ==
    IF self.kind = "dir" /\ self.children # << >>
    THEN << >>
    ELSE <<DiffResult("add", path, self.hash, self.size, None, None)>>

RECURSIVE CreateDiffs(_, _, _, _)
RECURSIVE CreateChildDiffs(_, _, _, _, _, _)

\* the second loop of the directory case, from child i on, with the diffs
\* and the atomic result so far
CreateChildDiffs(self, other, path, compareHashes, i, acc) ==
    IF i > Len(self.children) THEN acc
    ELSE LET c == self.children[i]
             r == CreateDiffs(c.node, GetChild(other, c.name),
                              Append(path, c.name), compareHashes)
         IN CreateChildDiffs(self, other, path, compareHashes, i + 1,
                [diffs |-> acc.diffs \o r.diffs,
                 result |-> UpdateAtomicResult(acc.result, r.result)])

\* CreateDiffs(self, other, file_compare_func) -> (diffs, atomic result);
\* path is self.fullpath, which is other.fullpath too
CreateDiffs(self, other, path, compareHashes) ==
    IF other.kind = "none"
    THEN [diffs |-> OwnAdd(self, path)
                        \o CreateChildDiffs(self, NoNode, path, compareHashes, 1,
                                [diffs |-> << >>, result |-> "none"]).diffs,
          result |-> "add"]
    ELSE IF self.kind = "file" \/ other.kind = "file"
    THEN IF self.kind = "file" /\ other.kind = "file"
         THEN IF CompareFunc(compareHashes, self, other)
              THEN [diffs |-> << >>, result |-> "none"]
              ELSE [diffs |-> <<DiffResult("modify", path, self.hash, self.size,
                                           other.hash, other.size)>>,
                    result |-> "modify"]
         ELSE [diffs |-> <<DiffResult("remove", path, None, None,
                                      other.hash, other.size)>>
                          \o CreateDiffs(self, NoNode, path, compareHashes).diffs,
               result |-> "modify"]
    ELSE LET removed == RemovedChildren(self, other, path, 1)
             all == CreateChildDiffs(self, other, path, compareHashes, 1, removed)
         IN IF all.result = "remove"
            THEN IF self.explicit \/ other.explicit
                 THEN [diffs |-> all.diffs, result |-> "modify"]
                 ELSE [diffs |-> <<DiffResult("remove", path, None, None,
                                              other.hash, other.size)>>,
                       result |-> "remove"]
            ELSE all

\* the last assertion of DiffResult.__post_init__: a modify is of two files
\* with different hashes (the other assertions hold of every DiffResult that
\* CreateDiffs builds)
DiffResultRaises(d) == d.operation = "modify" /\ d.this_hash = d.other_hash

\* Snapshot.Diff: the diffs of CreateDiffs at the two roots
Diff(this, other, compareHashes) ==
    CreateDiffs(this, other, << >>, compareHashes).diffs
-----------------------------------------------------------------------------
(* A snapshot as the set of its entries, and a faithful applicator *)

FlatEntry(path, hash, size) == [path |-> path, hash |-> hash, size |-> size]

\* every node but the root: its path, its hash (or the directory
\* placeholder) and its size
Flat(root) ==
    {FlatEntry(e.path, e.node.hash, e.node.size) : e \in Enum(root)}

Ancestors(path) == {SubSeq(path, 1, k) : k \in 1..(Len(path) - 1)}

PathsOf(entries) == {e.path : e \in entries}

\* remove: the path and its subtree go.  add: the path is created, with the
\* directories leading to it.  modify: the file at the path is replaced.
ApplyDiff(entries, d) ==
    IF d.operation = "remove"
    THEN {e \in entries : ~IsPrefix(d.path, e.path)}
    ELSE IF d.operation = "add"
    THEN {e \in entries : e.path # d.path}
            \cup {FlatEntry(d.path, d.this_hash, d.this_file_size)}
            \cup {FlatEntry(p, DirHashPlaceholder, None) :
                    p \in Ancestors(d.path) \ PathsOf(entries)}
    ELSE {e \in entries : e.path # d.path}
            \cup {FlatEntry(d.path, d.this_hash, d.this_file_size)}

RECURSIVE ApplyDiffs(_, _)
ApplyDiffs(entries, diffs) ==
    IF diffs = << >> THEN entries
    ELSE ApplyDiffs(ApplyDiff(entries, Head(diffs)), Tail(diffs))

-----------------------------------------------------------------------------
(* SpecDiff: Snapshot.Diff on every pair of bounded snapshots *)

\* every ordering of every subset of names, each name with a node
RECURSIVE OrderedChildren(_, _)
OrderedChildren(names, nodes) ==
    {<< >>} \cup UNION {
        {<<[name |-> n, node |-> x]>> \o rest :
            x \in nodes, rest \in OrderedChildren(names \ {n}, nodes)} : n \in names
    }

\* files and empty directories, explicitly added or not
DiffLeafNodes ==
    {FileNode(HashOf(c), SizeOf(c)) : c \in Contents}
        \cup {DirNode(e, << >>) : e \in BOOLEAN}

DiffInnerNodes ==
    DiffLeafNodes
        \cup {DirNode(e, ch) : e \in BOOLEAN,
                ch \in OrderedChildren(InnerNames, DiffLeafNodes) \ {<< >>}}

\* the snapshots Diff is tried on: every tree of depth two that satisfies
\* the node invariants of Node.__post_init__
DiffTrees(explicits) ==
    {DirNode(e, ch) : e \in explicits, ch \in OrderedChildren(TopNames, DiffInnerNodes)}

\* the snapshot of the same tree when Calculate is called with
\* calculate_hashes=False
RECURSIVE WithoutHashes(_)
WithoutHashes(node) ==
    IF node.kind = "file" THEN FileNode(NotCalculated, node.size)
    ELSE DirNode(node.explicit,
                 [i \in DOMAIN node.children |->
                    [name |-> node.children[i].name,
                     node |-> WithoutHashes(node.children[i].node)]])

DiffIdle ==
    /\ dThis = EmptyRoot
    /\ dOther = EmptyRoot
    /\ dCompareHashes = TRUE
    /\ dDiffs = << >>
    /\ dDone = FALSE
    /\ dRaised = FALSE
    /\ dLoaded = NoNode

InitDiff ==
    /\ dThis \in DiffTrees({FALSE})
    /\ dOther \in DiffTrees(BOOLEAN)
    /\ dCompareHashes = TRUE
    /\ dDiffs = << >>
    /\ dDone = FALSE
    /\ dRaised = FALSE
    /\ dLoaded = NoNode

\* list(this.Diff(other, compare_hashes=...)).  Hashes are compared of
\* snapshots that have them; sizes are compared when this was calculated
\* without hashes (Validate), other with or without them.  The list is
\* built before anything is yielded, so nothing is yielded when the
\* construction of one of its DiffResults asserts.
RunDiff ==
    /\ ~dDone
    /\ dLoaded = NoNode
    /\ \E compare_hashes \in BOOLEAN, other_hashes \in BOOLEAN :
        /\ compare_hashes => other_hashes
        /\ dThis' = IF compare_hashes THEN dThis ELSE WithoutHashes(dThis)
        /\ dOther' = IF other_hashes THEN dOther ELSE WithoutHashes(dOther)
        /\ dCompareHashes' = compare_hashes
        /\ dDiffs' = Diff(dThis', dOther', compare_hashes)
        /\ dRaised' = \E i \in DOMAIN dDiffs' : DiffResultRaises(dDiffs'[i])
    /\ dDone' = TRUE
    /\ UNCHANGED dLoaded
    /\ UNCHANGED <<mirrorVars, offsiteVars, calcVars, preserveVars, restoreVars,
                   treeVars, filterVars, deliverVars>>

\* other.Persist(...) and then Snapshot.LoadPersisted(...)
RunPersistAndLoad ==
    /\ ~dDone
    /\ dLoaded = NoNode
    /\ dLoaded' = FromJson(ToJson(dOther))
    /\ UNCHANGED <<dThis, dOther, dCompareHashes, dDiffs, dDone, dRaised>>
    /\ UNCHANGED <<mirrorVars, offsiteVars, calcVars, preserveVars, restoreVars,
                   treeVars, filterVars, deliverVars>>

NextDiff == RunDiff \/ RunPersistAndLoad

-----------------------------------------------------------------------------
(* The source file system and Snapshot.Calculate *)

\* A file system is a set of entries [path, val]: val is 0 for a directory
\* and the content (1..NumContents) for a file.  A source path is a sequence
\* of names, ("/", "s", "a") for /s/a.
Entry(path, val) == [path |-> path, val |-> val]

IsDirVal == 0

\* the backed-up input directory, /s
InputDir == <<"/", "s">>

\* os.walk lists names in directory order; the model fixes that order
NameOrder == <<"/", "s", "a", "b">>

SortedNames(S) == SelectSeq(NameOrder, LAMBDA n : n \in S)

\* what may be at /s/<n>: nothing, a file, an empty directory, or a
\* directory holding the one file a
SourceOptions(n) ==
    {{}}
        \cup {{Entry(InputDir \o <<n>>, c)} : c \in Contents}
        \cup {{Entry(InputDir \o <<n>>, IsDirVal)}}
        \cup {{Entry(InputDir \o <<n>>, IsDirVal), Entry(InputDir \o <<n, i>>, c)} :
                i \in InnerNames, c \in Contents}

\* every state of the source: /s and, below it, one option per name
Sources ==
    {{Entry(<<"/">>, IsDirVal), Entry(InputDir, IsDirVal)} \cup x \cup y :
        x \in SourceOptions("a"), y \in SourceOptions("b")}

\* GetItemType
GetItemType(fs, path) ==
    IF \E e \in fs : e.path = path
    THEN IF (CHOOSE e \in fs : e.path = path).val = IsDirVal THEN "dir" ELSE "file"
    ELSE "none"

ValAt(fs, path) == (CHOOSE e \in fs : e.path = path).val

\* the names a directory lists: its subdirectories, its files
ListDirs(fs, dir) ==
    {Last(e.path) : e \in {x \in fs : Len(x.path) = Len(dir) + 1
                                      /\ IsPrefix(dir, x.path) /\ x.val = IsDirVal}}

ListFiles(fs, dir) ==
    {Last(e.path) : e \in {x \in fs : Len(x.path) = Len(dir) + 1
                                      /\ IsPrefix(dir, x.path) /\ x.val # IsDirVal}}

\* FileSystemDataStore.Walk, top down: the directories in the order os.walk
\* visits them
RECURSIVE WalkFrom(_, _)
RECURSIVE WalkEach(_, _, _)
WalkFrom(fs, dir) == <<dir>> \o WalkEach(fs, dir, SortedNames(ListDirs(fs, dir)))

WalkEach(fs, dir, names) ==
    IF names = << >> THEN << >>
    ELSE WalkFrom(fs, Append(dir, Head(names))) \o WalkEach(fs, dir, Tail(names))

\* Common.CreateFilterFunc with no file_includes: a file passes unless one of
\* the file_excludes patterns is found in its path.  A pattern is a name and
\* is found in a path that has it as a component.
FilterFilenameFunc(excludes, path) == Range(path) \cap excludes = {}

\* the files one visited directory contributes, in listing order
RECURSIVE FilesIn(_, _, _, _)
FilesIn(fs, dir, names, excludes) ==
    IF names = << >> THEN << >>
    ELSE LET fullpath == Append(dir, Head(names))
             rest == FilesIn(fs, dir, Tail(names), excludes)
         IN IF FilterFilenameFunc(excludes, fullpath) THEN <<fullpath>> \o rest
            ELSE rest

\* the discovery task of Calculate over the visited directories: filenames
\* and empty_dirs.  A directory is empty when it lists nothing at all; a
\* directory whose files are all filtered out is neither listed nor empty.
RECURSIVE Discover(_, _, _)
Discover(fs, visited, excludes) ==
    IF visited = << >> THEN [filenames |-> << >>, empty_dirs |-> << >>]
    ELSE LET dir == Head(visited)
             rest == Discover(fs, Tail(visited), excludes)
         IN IF ListDirs(fs, dir) = {} /\ ListFiles(fs, dir) = {}
            THEN [filenames |-> rest.filenames, empty_dirs |-> <<dir>> \o rest.empty_dirs]
            ELSE [filenames |-> FilesIn(fs, dir, SortedNames(ListFiles(fs, dir)), excludes)
                                    \o rest.filenames,
                  empty_dirs |-> rest.empty_dirs]

\* "Organizing results": AddFile for every file, then AddDir for every empty
\* directory
RECURSIVE AddFiles(_, _, _)
AddFiles(root, fs, filenames) ==
    IF filenames = << >> THEN root
    ELSE LET c == ValAt(fs, Head(filenames))
         IN AddFiles(AddFile(root, Head(filenames), HashOf(c), SizeOf(c), FALSE).node,
                     fs, Tail(filenames))

RECURSIVE AddDirs(_, _)
AddDirs(root, dirs) ==
    IF dirs = << >> THEN root
    ELSE AddDirs(AddDir(root, Head(dirs), FALSE).node, Tail(dirs))

\* Snapshot.Calculate of the one input /s
Calculate(fs, excludes) ==
    LET info == Discover(fs, WalkFrom(fs, InputDir), excludes)
    IN IF info.filenames = << >> /\ info.empty_dirs = << >> THEN EmptyRoot
       ELSE AddDirs(AddFiles(EmptyRoot, fs, info.filenames), info.empty_dirs)

-----------------------------------------------------------------------------
(* The destination: FileSystemDataStore over the destination directory *)

\* A destination name is a base name and the extension put on it:
\*   ""    none
\*   "pd"  Common.PENDING_DELETE_EXTENSION   (.__pending_delete__)
\*   "pc"  Common.PENDING_COMMIT_EXTENSION   (.__pending_commit__)
\*   "tpc" the temporary name of Common.WriteFile for a "pc" name
\*         (.__temp__.__pending_commit__)
\* A destination path is a sequence of destination names, relative to the
\* destination directory.
DestName(base, ext) == [base |-> base, ext |-> ext]

PENDING_COMMIT_EXTENSION == "pc"

PENDING_DELETE_EXTENSION == "pd"

\* a suffix test that takes the whole of what follows the base name
SuffixWhole(path) == Last(path).ext

\* Path.suffix: the text from the last dot of the name on
Suffix(path) == IF Last(path).ext = "tpc" THEN "pc" ELSE Last(path).ext

\* Path.with_suffix(""): "x.__temp__.__pending_commit__" becomes "x.__temp__"
WithSuffixRemoved(path) ==
    Append(Parent(path),
           DestName(Last(path).base, IF Last(path).ext = "tpc" THEN "temp" ELSE ""))

\* parent / (stem + ".__temp__" + suffix) in Common.WriteFile
TempFilename(path) ==
    Append(Parent(path),
           DestName(Last(path).base, IF Last(path).ext = "pc" THEN "tpc" ELSE "temp"))

\* Mirror.CONTENT_DIR_NAME
CONTENT_DIR_NAME == <<DestName("Content", "")>>

Under(fs, path) == {e \in fs : IsPrefix(path, e.path)}

\* RemoveDir (shutil.rmtree) and RemoveFile (unlink)
RemoveItem(fs, path) == fs \ Under(fs, path)

\* MakeDirs: mkdir(parents=True, exist_ok=True)
MakeDirs(fs, path) ==
    fs \cup {Entry(SubSeq(path, 1, k), IsDirVal) :
                k \in {j \in 1..Len(path) : GetItemType(fs, SubSeq(path, 1, j)) = "none"}}

\* it raises when a file is in the way
MakeDirsRaises(fs, path) ==
    \E k \in 1..Len(path) : GetItemType(fs, SubSeq(path, 1, k)) = "file"

\* FileSystemDataStore.Rename: what is at new_path is unlinked or removed,
\* then shutil.move(old_path, new_path)
Rename(fs, old, new) ==
    LET cleared == RemoveItem(fs, new)
        moved == {Entry(new \o SubSeq(e.path, Len(old) + 1, Len(e.path)), e.val) :
                    e \in Under(cleared, old)}
    IN (cleared \ Under(cleared, old)) \cup moved

\* a destination path that keeps the last name alone
CreateDestinationPathFlat(path, ext) == <<DestName(Last(path), ext)>>

\* CreateDestinationPathNotWindows: the root "/" is dropped (parts[1:]) and
\* the extension is put on the last name
CreateDestinationPath(path, ext) ==
    [i \in 1..(Len(path) - 1) |->
        DestName(path[i + 1], IF i = Len(path) - 1 THEN ext ELSE "")]

\* path.parts[0] of a path with no parts raises IndexError
CreateDestinationPathRaises(path) == path = << >>

\* the content directory as a completed mirror of a snapshot leaves it: a
\* file or a directory for every node below the root "/", under Content
MirrorOf(root) ==
    {Entry(CONTENT_DIR_NAME, IsDirVal)}
        \cup {Entry(CONTENT_DIR_NAME \o CreateDestinationPath(e.path, ""),
                    IF e.node.kind = "dir" THEN DirHashPlaceholder ELSE e.node.hash) :
                e \in {x \in Enum(root) : Len(x.path) > 1}}

\* a file system with each file's content replaced by its hash
Hashed(fs) ==
    {Entry(e.path, IF e.val = IsDirVal THEN DirHashPlaceholder ELSE HashOf(e.val)) :
        e \in fs}

\* a persisted snapshot file: absent, or holding the JSON of a snapshot
NoFile == [exists |-> FALSE, json |-> ToJson(EmptyRoot)]

SnapshotFile(root) == [exists |-> TRUE, json |-> ToJson(root)]

\* Snapshot.LoadPersisted
LoadPersisted(file) == FromJson(file.json)

\* the entries under Content, relative to Content
ContentTree(fs) == {e \in fs : IsProperPrefix(CONTENT_DIR_NAME, e.path)}

-----------------------------------------------------------------------------
(* Mirror: _CleanupImpl *)

\* the loop body of _CleanupImpl for one listed item: a pending commit is
\* removed, a pending delete is renamed back to its original name
RevertItem(fs, fullpath) ==
    IF Suffix(fullpath) = PENDING_COMMIT_EXTENSION THEN RemoveItem(fs, fullpath)
    ELSE IF Suffix(fullpath) = PENDING_DELETE_EXTENSION
    THEN Rename(fs, fullpath, WithSuffixRemoved(fullpath))
    ELSE fs

RECURSIVE RevertItems(_, _)
RevertItems(fs, fullpaths) ==
    IF fullpaths = << >> THEN fs
    ELSE RevertItems(RevertItem(fs, Head(fullpaths)), Tail(fullpaths))

\* data_store.Walk() with the loop body applied at every directory it
\* yields: the directories listed first, then the files; os.walk then goes
\* into each listed directory that is still a directory
RECURSIVE CleanupWalk(_, _)
RECURSIVE CleanupDescend(_, _, _)
CleanupWalk(fs, root) ==
    LET directories == SeqOfSet({Append(root, n) : n \in ListDirs(fs, root)})
        filenames == SeqOfSet({Append(root, n) : n \in ListFiles(fs, root)})
    IN CleanupDescend(RevertItems(fs, directories \o filenames), root, directories)

\* a walk that looks at the top directory alone
CleanupDescendNever(fs, root, directories) == fs

CleanupDescend(fs, root, directories) ==
    IF directories = << >> THEN fs
    ELSE CleanupDescend(
            IF GetItemType(fs, Head(directories)) = "dir"
            THEN CleanupWalk(fs, Head(directories)) ELSE fs,
            root, Tail(directories))

\* _CleanupImpl on the destination: its directory tree and the two snapshot
\* files that carry the pending commit extension.  The walk starts at the
\* working directory of the data store, which is the destination directory.
CleanupImpl(fs, pending, temp) ==
    IF GetItemType(fs, CONTENT_DIR_NAME) = "none"
    THEN [fs |-> fs, pending |-> pending, temp |-> temp]
    ELSE IF GetItemType(fs, CONTENT_DIR_NAME) = "file"
    THEN [fs |-> RemoveItem(fs, CONTENT_DIR_NAME), pending |-> pending, temp |-> temp]
    ELSE [fs |-> CleanupWalk(fs, << >>), pending |-> NoFile, temp |-> NoFile]

-----------------------------------------------------------------------------
(* Mirror: Backup *)

\* Common.CalculateDiffs: the diffs of source against destination, by
\* operation
CalculateDiffs(source, dest) ==
    LET all == Diff(source, dest, TRUE)
    IN [remove |-> SelectSeq(all, LAMBDA d : d.operation = "remove"),
        add |-> SelectSeq(all, LAMBDA d : d.operation = "add"),
        modify |-> SelectSeq(all, LAMBDA d : d.operation = "modify")]

\* the number of worker threads of ExecuteTasks.TransformTasks when the
\* destination executes in parallel (one otherwise, which is the runs of the
\* model where no two tasks overlap)
NumWorkers == 2

\* the number of Backup runs in one behaviour
MaxRuns == 1

\* a task of one of the four TransformTasks calls: src is the diff's path
\* (mark, copy) and item the destination path below Content it works on
Task(phase, src, item) == [phase |-> phase, src |-> src, item |-> item]

InContent(item) == CONTENT_DIR_NAME \o item

MarkTasks(diffs) ==
    {Task("mark", d.path,
          IF CreateDestinationPathRaises(d.path) THEN << >>
          ELSE CreateDestinationPath(d.path, PENDING_DELETE_EXTENSION)) :
        d \in Range(diffs.modify) \cup Range(diffs.remove)}

CopyTasks(diffs) ==
    {Task("copy", d.path, CreateDestinationPath(d.path, PENDING_COMMIT_EXTENSION)) :
        d \in Range(diffs.add) \cup Range(diffs.modify)}

CommitTasks(items) == {Task("commit", << >>, i) : i \in items}

PurgeTasks(items) == {Task("purge", << >>, i) : i \in items}

\* the phase that follows cur, given the diffs, the pending items collected
\* so far and dm.result: a phase with nothing to do is skipped, an error
\* ends the run
PhasesFrom(cur) ==
    IF cur = "content" THEN <<"mark", "copy", "commit", "purge">>
    ELSE IF cur = "mark" THEN <<"copy", "commit", "purge">>
    ELSE IF cur = "copy" THEN <<"commit", "purge">>
    ELSE IF cur = "commit" THEN <<"purge">>
    ELSE << >>

TasksOf(phase, diffs, pendingCommit, pendingDelete) ==
    IF phase = "mark" THEN MarkTasks(diffs)
    ELSE IF phase = "copy" THEN CopyTasks(diffs)
    ELSE IF phase = "commit" THEN CommitTasks(pendingCommit)
    ELSE PurgeTasks(pendingDelete)

NextPhase(cur, diffs, pendingCommit, pendingDelete, result) ==
    IF result # 0 THEN "failed"
    ELSE LET later == SelectSeq(PhasesFrom(cur),
                        LAMBDA p : TasksOf(p, diffs, pendingCommit, pendingDelete) # {})
         IN IF later = << >> THEN "snapshot" ELSE Head(later)

-----------------------------------------------------------------------------
(* Mirror: the steps of Backup, the kill, and Cleanup *)

NoDiffs == [remove |-> << >>, add |-> << >>, modify |-> << >>]

\* file_excludes: nothing, or the one pattern "b"
ExcludeOptions == {{}, {"b"}}

\* the source as a completed Backup copies it: an entry under Content for
\* every node of the snapshot below "/"
CopyOf(src, root) ==
    {Entry(CONTENT_DIR_NAME, IsDirVal)}
        \cup {Entry(InContent(CreateDestinationPath(e.path, "")), ValAt(src, e.path)) :
                e \in {x \in Enum(root) : Len(x.path) > 1}}

\* no Backup call is being looked at.  A call is looked at from its entry
\* until it returns or writes: its free bytes and required bytes, and, of a
\* call that was rejected, the two staged snapshot files it found
NoCall ==
    [reason |-> "none", available |-> None, required |-> 0,
     pending |-> NoFile, temp |-> NoFile]

\* no Cleanup since the last run began
NoClean == [ran |-> FALSE, fs |-> {}, pending |-> NoFile, temp |-> NoFile]

\* a destination never written to, or one a Backup of some source completed on
MirrorInit ==
    /\ \/ /\ mFs = {}
          /\ mSnapshot = NoFile
       \/ \E s \in Sources, x \in ExcludeOptions :
            /\ mFs = CopyOf(s, Calculate(s, x))
            /\ mSnapshot = SnapshotFile(Calculate(s, x))
    /\ mSrc = {Entry(<<"/">>, IsDirVal), Entry(InputDir, IsDirVal)}
    /\ mExcludes = {}
    /\ mForce = FALSE
    /\ mPendingSnapshot = NoFile
    /\ mTempSnapshot = NoFile
    /\ mPc = "idle"
    /\ mLocal = EmptyRoot
    /\ mDiffs = NoDiffs
    /\ mTodo = {}
    /\ mRunning = {}
    /\ mPendingCommit = {}
    /\ mPendingDelete = {}
    /\ mResult = 0
    /\ mPhases = << >>
    /\ mPre = mFs
    /\ mPreSnapshot = mSnapshot
    /\ mRuns = 0
    /\ mOutcome = "none"
    /\ mCall = NoCall
    /\ mClean = NoClean

\* SpecDiff and SpecOffsite hold the mirror at this state
MirrorIdle ==
    /\ mFs = {}
    /\ mSnapshot = NoFile
    /\ mSrc = {Entry(<<"/">>, IsDirVal), Entry(InputDir, IsDirVal)}
    /\ mExcludes = {}
    /\ mForce = FALSE
    /\ mPendingSnapshot = NoFile
    /\ mTempSnapshot = NoFile
    /\ mPc = "idle"
    /\ mLocal = EmptyRoot
    /\ mDiffs = NoDiffs
    /\ mTodo = {}
    /\ mRunning = {}
    /\ mPendingCommit = {}
    /\ mPendingDelete = {}
    /\ mResult = 0
    /\ mPhases = << >>
    /\ mPre = {}
    /\ mPreSnapshot = NoFile
    /\ mRuns = 0
    /\ mOutcome = "none"
    /\ mCall = NoCall
    /\ mClean = NoClean

Resting == mPc \in {"idle", "done", "failed", "killed", "rejected", "redone", "refailed"}

\* input_filenames_or_dirs: /s alone, /s with a path that does not exist,
\* /s with /s/a
InputOptions ==
    {<<InputDir>>, <<InputDir, <<"/", "x">>>>, <<InputDir, InputDir \o <<"a">>>>}

\* the data store of the destination: a file system outside the inputs, or
\* a bulk storage data store
DestinationOptions == {"file", "bulk"}

\* GetBytesAvailable of the destination: None, or the free bytes
BytesAvailableOptions == {None, 20, 40}

\* the calls of Backup: at most one of input_filenames_or_dirs, the
\* destination and its free space is other than the plain one
Calls ==
    {c \in [inputs : InputOptions, destination : DestinationOptions,
            available : BytesAvailableOptions] :
        Cardinality({k \in {"inputs", "destination", "available"} :
                        c[k] # [inputs |-> <<InputDir>>, destination |-> "file",
                                available |-> None][k]}) <= 1}

\* "if not input_filename_or_dir.exists(): raise"
InputMissing(src, inputs) == \E i \in DOMAIN inputs : GetItemType(src, inputs[i]) = "none"

\* Snapshot.Calculate: "if PathEx.IsDescendant(input_item, query_item): raise"
InputsOverlap(inputs) ==
    \E i, j \in DOMAIN inputs : IsProperPrefix(inputs[j], inputs[i])

\* bytes_required of ValidateSizeRequirements: the sizes of the local files
\* at the paths of the diffs; a directory and a path with nothing at it
\* count for nothing
RECURSIVE BytesRequired(_, _)
BytesRequired(src, diffs) ==
    IF diffs = << >> THEN 0
    ELSE (IF GetItemType(src, Head(diffs).path) = "file"
          THEN SizeOf(ValAt(src, Head(diffs).path)) ELSE 0)
            + BytesRequired(src, Tail(diffs))

\* a ValidateSizeRequirements that writes no error
ValidateSizeRequirementsSkipped(bytes_available, bytes_required) == "ok"

\* ValidateSizeRequirements: "if (bytes_available * 0.85) <= bytes_required:
\* WriteError".  0.85 is 17/20; the products of the free bytes of the model
\* are whole numbers, which the floating point product gives exactly.
ValidateSizeRequirements(bytes_available, bytes_required) ==
    IF bytes_available = None THEN "ok"
    ELSE IF 17 * bytes_available <= 20 * bytes_required THEN "error"
    ELSE "ok"

\* why Backup returns before it persists anything, or "none": the checks in
\* the order Backup makes them
Rejection(src, call, bytes_required) ==
    IF InputMissing(src, call.inputs) THEN "input"
    ELSE IF call.destination = "bulk" THEN "destination"
    ELSE IF InputsOverlap(call.inputs) THEN "overlap"
    ELSE IF ValidateSizeRequirements(call.available, bytes_required) = "error"
    THEN "space"
    ELSE "none"

\* Backup, from its entry to the end of _CleanupImpl: the checks of the
\* inputs and of the destination, the local snapshot, the destination
\* snapshot (empty when forced or not persisted), the diffs, the size
\* requirements, and the revert of what an earlier run left.  file_excludes
\* and force are not read before the local snapshot is created.
MBegin ==
    /\ Resting
    /\ mRuns < MaxRuns
    /\ \E s \in Sources, x \in ExcludeOptions, f \in BOOLEAN, call \in Calls :
        LET local == Calculate(s, x)
            dest == IF f \/ ~mSnapshot.exists THEN EmptyRoot
                    ELSE LoadPersisted(mSnapshot)
            diffs == CalculateDiffs(local, dest)
            required == BytesRequired(s, diffs.add \o diffs.modify)
            reason == Rejection(s, call, required)
            cleaned == CleanupImpl(mFs, mPendingSnapshot, mTempSnapshot)
        IN /\ mSrc' = s
           /\ IF reason \in {"input", "destination", "overlap"}
              THEN /\ x = {} /\ f = FALSE
                   /\ mExcludes' = x
                   /\ mForce' = f
                   /\ mLocal' = EmptyRoot
                   /\ mDiffs' = NoDiffs
                   /\ mCall' = [reason |-> reason, available |-> None, required |-> 0,
                                pending |-> mPendingSnapshot, temp |-> mTempSnapshot]
                   /\ mPc' = "rejected"
                   /\ mOutcome' = IF reason = "destination" THEN "error" ELSE "raised"
                   /\ UNCHANGED <<mFs, mPendingSnapshot, mTempSnapshot>>
              ELSE /\ mExcludes' = x
                   /\ mForce' = f
                   /\ mLocal' = local
                   /\ mDiffs' = diffs
                   /\ mCall' = [reason |-> reason, available |-> call.available,
                                required |-> required,
                                pending |-> IF reason = "space" THEN mPendingSnapshot
                                            ELSE NoFile,
                                temp |-> IF reason = "space" THEN mTempSnapshot
                                         ELSE NoFile]
                   /\ IF reason = "space"
                      THEN /\ mPc' = "rejected"
                           /\ mOutcome' = "error"
                           /\ UNCHANGED <<mFs, mPendingSnapshot, mTempSnapshot>>
                      ELSE /\ mPc' = "begun"
                           /\ mOutcome' = "running"
                           /\ mFs' = cleaned.fs
                           /\ mPendingSnapshot' = cleaned.pending
                           /\ mTempSnapshot' = cleaned.temp
    /\ mTodo' = {}
    /\ mRunning' = {}
    /\ mPendingCommit' = {}
    /\ mPendingDelete' = {}
    /\ mResult' = 0
    /\ mPhases' = << >>
    /\ mPre' = mFs
    /\ mPreSnapshot' = mSnapshot
    /\ mRuns' = mRuns + 1
    /\ mClean' = NoClean
    /\ UNCHANGED mSnapshot
    /\ UNCHANGED <<diffVars, offsiteVars, calcVars, preserveVars, restoreVars,
                   treeVars, filterVars, deliverVars>>

\* a Backup that writes the new snapshot over BackupSnapshot.json at once
MWriteSnapshotInPlace ==
    /\ mPc = "begun"
    /\ mSnapshot' = SnapshotFile(mLocal)
    /\ mPc' = "temp"
    /\ UNCHANGED <<mSrc, mExcludes, mForce, mFs, mTempSnapshot, mPendingSnapshot,
                   mLocal, mDiffs, mTodo, mRunning, mPendingCommit, mPendingDelete,
                   mResult, mPhases, mPre, mPreSnapshot, mRuns, mOutcome, mClean>>
    /\ mCall' = NoCall
    /\ UNCHANGED <<diffVars, offsiteVars, calcVars, preserveVars, restoreVars,
                   treeVars, filterVars, deliverVars>>

\* Common.WriteFile of the snapshot, first half: the temporary file
MWriteSnapshot ==
    /\ mPc = "begun"
    /\ mTempSnapshot' = SnapshotFile(mLocal)
    /\ mPc' = "temp"
    /\ UNCHANGED <<mSrc, mExcludes, mForce, mFs, mSnapshot, mPendingSnapshot,
                   mLocal, mDiffs, mTodo, mRunning, mPendingCommit, mPendingDelete,
                   mResult, mPhases, mPre, mPreSnapshot, mRuns, mOutcome, mClean>>
    /\ mCall' = NoCall
    /\ UNCHANGED <<diffVars, offsiteVars, calcVars, preserveVars, restoreVars,
                   treeVars, filterVars, deliverVars>>

\* second half: the temporary file renamed to the pending snapshot
MStageSnapshot ==
    /\ mPc = "temp"
    /\ mPendingSnapshot' = mTempSnapshot
    /\ mTempSnapshot' = NoFile
    /\ mPc' = "staged"
    /\ UNCHANGED <<mSrc, mExcludes, mForce, mFs, mSnapshot,
                   mLocal, mDiffs, mTodo, mRunning, mPendingCommit, mPendingDelete,
                   mResult, mPhases, mPre, mPreSnapshot, mRuns, mOutcome, mClean>>
    /\ UNCHANGED mCall
    /\ UNCHANGED <<diffVars, offsiteVars, calcVars, preserveVars, restoreVars,
                   treeVars, filterVars, deliverVars>>

\* MakeDirs(Content) and SetWorkingDir(Content)
MMakeContent ==
    /\ mPc = "staged"
    /\ mFs' = MakeDirs(mFs, CONTENT_DIR_NAME)
    /\ mPc' = "content"
    /\ UNCHANGED <<mSrc, mExcludes, mForce, mSnapshot, mPendingSnapshot, mTempSnapshot,
                   mLocal, mDiffs, mTodo, mRunning, mPendingCommit, mPendingDelete,
                   mResult, mPhases, mPre, mPreSnapshot, mRuns, mOutcome, mClean>>
    /\ UNCHANGED mCall
    /\ UNCHANGED <<diffVars, offsiteVars, calcVars, preserveVars, restoreVars,
                   treeVars, filterVars, deliverVars>>

\* what the force walk has yet to rename: os.walk lists Content once, and
\* does not go into a directory that was renamed
ForceLeft ==
    IF mForce
    THEN {e.path : e \in {x \in mFs : Len(x.path) = 2
                            /\ IsPrefix(CONTENT_DIR_NAME, x.path)
                            /\ Last(x.path).ext # PENDING_DELETE_EXTENSION}}
    ELSE {}

\* "if force": one item of Content renamed to its pending delete name
MForceMark ==
    /\ mPc = "content"
    /\ \E p \in ForceLeft :
        LET deleteFilename == Append(Parent(p), DestName(Last(p).base,
                                                         PENDING_DELETE_EXTENSION))
        IN /\ mFs' = Rename(mFs, p, deleteFilename)
           /\ mPendingDelete' = mPendingDelete \cup {Tail(deleteFilename)}
    /\ UNCHANGED <<mSrc, mExcludes, mForce, mSnapshot, mPendingSnapshot, mTempSnapshot,
                   mPc, mLocal, mDiffs, mTodo, mRunning, mPendingCommit,
                   mResult, mPhases, mPre, mPreSnapshot, mRuns, mOutcome, mClean>>
    /\ UNCHANGED mCall
    /\ UNCHANGED <<diffVars, offsiteVars, calcVars, preserveVars, restoreVars,
                   treeVars, filterVars, deliverVars>>

\* a TransformTasks that returned once every task was handed to a worker
PhaseCompleteEarly == mTodo = {}

\* TransformTasks returns when every task it was given has finished
PhaseComplete == mTodo = {} /\ mRunning = {}

\* the statements between two TransformTasks calls: the result check of the
\* phase that ended and the "if" that guards the next one
MAdvance ==
    /\ mPc \in {"content", "mark", "copy", "commit", "purge"}
    /\ mPc = "content" => ForceLeft = {}
    /\ PhaseComplete
    /\ LET next == NextPhase(mPc, mDiffs, mPendingCommit, mPendingDelete, mResult)
       IN /\ mPc' = next
          /\ mTodo' = IF next \in {"failed", "snapshot"} THEN {}
                      ELSE TasksOf(next, mDiffs, mPendingCommit, mPendingDelete)
          /\ mOutcome' = IF next = "failed" THEN "failed" ELSE mOutcome
          /\ mPhases' = IF next = "failed" THEN mPhases ELSE Append(mPhases, next)
    /\ UNCHANGED <<mSrc, mExcludes, mForce, mFs, mSnapshot, mPendingSnapshot,
                   mTempSnapshot, mLocal, mDiffs, mRunning, mPendingCommit,
                   mPendingDelete, mResult, mPre, mPreSnapshot, mRuns, mClean>>
    /\ UNCHANGED mCall
    /\ UNCHANGED <<diffVars, offsiteVars, calcVars, preserveVars, restoreVars,
                   treeVars, filterVars, deliverVars>>

\* a worker takes a task
MStartTask ==
    /\ Cardinality(mRunning) < NumWorkers
    /\ \E t \in mTodo :
        /\ mTodo' = mTodo \ {t}
        /\ mRunning' = mRunning \cup {[task |-> t, step |-> 0]}
    /\ UNCHANGED <<mSrc, mExcludes, mForce, mFs, mSnapshot, mPendingSnapshot,
                   mTempSnapshot, mPc, mLocal, mDiffs, mPendingCommit, mPendingDelete,
                   mResult, mPhases, mPre, mPreSnapshot, mRuns, mOutcome, mClean>>
    /\ UNCHANGED mCall
    /\ UNCHANGED <<diffVars, offsiteVars, calcVars, preserveVars, restoreVars,
                   treeVars, filterVars, deliverVars>>

\* the outcome of the next step of a task: the file system, the item the
\* task returns (or none), whether it raised, whether it is finished
StepOutcome(fs, delete, commit, raised, finished) ==
    [fs |-> fs, delete |-> delete, commit |-> commit, raised |-> raised,
     finished |-> finished]

\* Remove of "Marking content to be removed..."
RemoveStep(fs, t) ==
    IF CreateDestinationPathRaises(t.src) THEN StepOutcome(fs, {}, {}, TRUE, TRUE)
    ELSE LET pending == InContent(t.item)
             original == WithSuffixRemoved(pending)
         IN IF GetItemType(fs, original) = "none"
            THEN StepOutcome(fs, {}, {}, FALSE, TRUE)
            ELSE StepOutcome(Rename(fs, original, pending), {t.item}, {}, FALSE, TRUE)

\* Execute of Common.CopyLocalContent: a directory is made, a file is
\* written under its temporary name (step 0) and then renamed (step 1)
CopyStep(fs, src, t, step) ==
    LET dest == InContent(t.item)
        temp == TempFilename(dest)
    IN IF GetItemType(src, t.src) = "none" THEN StepOutcome(fs, {}, {}, FALSE, TRUE)
       ELSE IF GetItemType(src, t.src) = "dir"
       THEN IF MakeDirsRaises(fs, dest) THEN StepOutcome(fs, {}, {}, TRUE, TRUE)
            ELSE StepOutcome(MakeDirs(fs, dest), {}, {t.item}, FALSE, TRUE)
       ELSE IF step = 0
       THEN IF MakeDirsRaises(fs, Parent(temp)) THEN StepOutcome(fs, {}, {}, TRUE, TRUE)
            ELSE StepOutcome(
                    RemoveItem(MakeDirs(fs, Parent(temp)), temp)
                        \cup {Entry(temp, ValAt(src, t.src))},
                    {}, {}, FALSE, FALSE)
       ELSE StepOutcome(Rename(fs, temp, dest), {}, {t.item}, FALSE, TRUE)

\* Commit of "Committing added content...": the pending name is renamed to
\* the name without its suffix
CommitAddedStep(fs, t) ==
    LET fullpath == InContent(t.item)
    IN IF GetItemType(fs, fullpath) = "none" THEN StepOutcome(fs, {}, {}, FALSE, TRUE)
       ELSE StepOutcome(Rename(fs, fullpath, WithSuffixRemoved(fullpath)),
                        {}, {}, FALSE, TRUE)

\* a Commit that left the pending delete item where it is
CommitRemovedStepSkipped(fs, t) == StepOutcome(fs, {}, {}, FALSE, TRUE)

\* Commit of "Committing removed content...": RemoveDir or RemoveFile
CommitRemovedStep(fs, t) ==
    StepOutcome(RemoveItem(fs, InContent(t.item)), {}, {}, FALSE, TRUE)

TaskStep(fs, src, t, step) ==
    IF t.phase = "mark" THEN RemoveStep(fs, t)
    ELSE IF t.phase = "copy" THEN CopyStep(fs, src, t, step)
    ELSE IF t.phase = "commit" THEN CommitAddedStep(fs, t)
    ELSE CommitRemovedStep(fs, t)

\* a worker makes the next step of its task
MStepTask ==
    /\ \E r \in mRunning :
        LET o == TaskStep(mFs, mSrc, r.task, r.step)
        IN /\ mFs' = o.fs
           /\ mPendingDelete' = mPendingDelete \cup o.delete
           /\ mPendingCommit' = mPendingCommit \cup o.commit
           /\ mResult' = IF o.raised THEN -1 ELSE mResult
           /\ mRunning' = (mRunning \ {r})
                \cup (IF o.finished THEN {} ELSE {[task |-> r.task, step |-> r.step + 1]})
    /\ UNCHANGED <<mSrc, mExcludes, mForce, mSnapshot, mPendingSnapshot, mTempSnapshot,
                   mPc, mLocal, mDiffs, mTodo, mPhases, mPre, mPreSnapshot, mRuns,
                   mOutcome, mClean>>
    /\ UNCHANGED mCall
    /\ UNCHANGED <<diffVars, offsiteVars, calcVars, preserveVars, restoreVars,
                   treeVars, filterVars, deliverVars>>

\* shutil.rmtree of a pending delete directory is not one step: what is in
\* the directory goes before the directory does
MRemoveDirPartly ==
    /\ \E r \in mRunning :
        /\ r.task.phase = "purge"
        /\ \E e \in mFs : IsProperPrefix(InContent(r.task.item), e.path)
        /\ mFs' = {e \in mFs : ~IsProperPrefix(InContent(r.task.item), e.path)}
    /\ UNCHANGED <<mSrc, mExcludes, mForce, mSnapshot, mPendingSnapshot, mTempSnapshot,
                   mPc, mLocal, mDiffs, mTodo, mRunning, mPendingCommit, mPendingDelete,
                   mResult, mPhases, mPre, mPreSnapshot, mRuns, mOutcome, mClean>>
    /\ UNCHANGED mCall
    /\ UNCHANGED <<diffVars, offsiteVars, calcVars, preserveVars, restoreVars,
                   treeVars, filterVars, deliverVars>>

\* "Committing snapshot data...": FileSystemDataStore.Rename first unlinks
\* BackupSnapshot.json when there is one
MUnlinkSnapshot ==
    /\ mPc = "snapshot"
    /\ PhaseComplete
    /\ mSnapshot.exists
    /\ mSnapshot' = NoFile
    /\ mPc' = "unlinked"
    /\ UNCHANGED <<mSrc, mExcludes, mForce, mFs, mPendingSnapshot, mTempSnapshot,
                   mLocal, mDiffs, mTodo, mRunning, mPendingCommit, mPendingDelete,
                   mResult, mPhases, mPre, mPreSnapshot, mRuns, mOutcome, mClean>>
    /\ UNCHANGED mCall
    /\ UNCHANGED <<diffVars, offsiteVars, calcVars, preserveVars, restoreVars,
                   treeVars, filterVars, deliverVars>>

\* and then moves the pending snapshot to it; Backup returns
MCommitSnapshot ==
    /\ mPc = "unlinked" \/ (mPc = "snapshot" /\ PhaseComplete /\ ~mSnapshot.exists)
    /\ mSnapshot' = mPendingSnapshot
    /\ mPendingSnapshot' = NoFile
    /\ mPc' = "done"
    /\ mOutcome' = "done"
    /\ UNCHANGED <<mSrc, mExcludes, mForce, mFs, mTempSnapshot,
                   mLocal, mDiffs, mTodo, mRunning, mPendingCommit, mPendingDelete,
                   mResult, mPhases, mPre, mPreSnapshot, mRuns, mClean>>
    /\ UNCHANGED mCall
    /\ UNCHANGED <<diffVars, offsiteVars, calcVars, preserveVars, restoreVars,
                   treeVars, filterVars, deliverVars>>

\* the process is killed: its workers and its locals are gone
MKill ==
    /\ ~Resting
    /\ mPc' = "killed"
    /\ mOutcome' = "killed"
    /\ mTodo' = {}
    /\ mRunning' = {}
    /\ mPendingCommit' = {}
    /\ mPendingDelete' = {}
    /\ mResult' = 0
    /\ mPhases' = << >>
    /\ UNCHANGED <<mSrc, mExcludes, mForce, mFs, mSnapshot, mPendingSnapshot,
                   mTempSnapshot, mLocal, mDiffs, mPre, mPreSnapshot, mRuns, mClean>>
    /\ mCall' = NoCall
    /\ UNCHANGED <<diffVars, offsiteVars, calcVars, preserveVars, restoreVars,
                   treeVars, filterVars, deliverVars>>

\* Mirror.Cleanup, run to completion
MCleanup ==
    /\ Resting
    /\ LET cleaned == CleanupImpl(mFs, mPendingSnapshot, mTempSnapshot)
       IN /\ mFs' = cleaned.fs
          /\ mPendingSnapshot' = cleaned.pending
          /\ mTempSnapshot' = cleaned.temp
    /\ mClean' = [ran |-> TRUE, fs |-> mFs, pending |-> mPendingSnapshot,
                   temp |-> mTempSnapshot]
    /\ mPc' = "idle"
    /\ UNCHANGED <<mSrc, mExcludes, mForce, mSnapshot, mLocal, mDiffs, mTodo, mRunning,
                   mPendingCommit, mPendingDelete, mResult, mPhases, mPre, mPreSnapshot, mRuns,
                   mOutcome>>
    /\ mCall' = NoCall
    /\ UNCHANGED <<diffVars, offsiteVars, calcVars, preserveVars, restoreVars,
                   treeVars, filterVars, deliverVars>>

-----------------------------------------------------------------------------
(* Mirror: Backup run again after a kill, with one worker thread *)

\* the tasks of a TransformTasks call in the order of its list: the diffs
\* chained as Backup chains them, the pending items in the order collected
TaskList(phase, diffs, pendingCommit, pendingDelete) ==
    IF phase = "mark"
    THEN LET ds == diffs.modify \o diffs.remove
         IN [i \in DOMAIN ds |->
                Task("mark", ds[i].path,
                     IF CreateDestinationPathRaises(ds[i].path) THEN << >>
                     ELSE CreateDestinationPath(ds[i].path, PENDING_DELETE_EXTENSION))]
    ELSE IF phase = "copy"
    THEN LET ds == diffs.add \o diffs.modify
         IN [i \in DOMAIN ds |->
                Task("copy", ds[i].path,
                     CreateDestinationPath(ds[i].path, PENDING_COMMIT_EXTENSION))]
    ELSE IF phase = "commit"
    THEN [i \in DOMAIN pendingCommit |-> Task("commit", << >>, pendingCommit[i])]
    ELSE [i \in DOMAIN pendingDelete |-> Task("purge", << >>, pendingDelete[i])]

\* what a run has done so far: the destination tree, the pending items
\* collected and dm.result
RunState(fs, commit, delete, result) ==
    [fs |-> fs, commit |-> commit, delete |-> delete, result |-> result]

\* one task from its first step to its last
RunTask(st, src, t) ==
    LET first == TaskStep(st.fs, src, t, 0)
        o == IF first.finished THEN first ELSE TaskStep(first.fs, src, t, 1)
    IN RunState(o.fs, st.commit \o SeqOfSet(o.commit), st.delete \o SeqOfSet(o.delete),
                IF o.raised THEN -1 ELSE st.result)

\* TransformTasks with max_num_threads=1: the tasks one after the other; a
\* task that raises does not stop the ones after it
RECURSIVE RunTasks(_, _, _)
RunTasks(st, src, tasks) ==
    IF tasks = << >> THEN st
    ELSE RunTasks(RunTask(st, src, Head(tasks)), src, Tail(tasks))

\* "if force": every item of Content renamed to its pending delete name,
\* the directories of the listing before its files
RECURSIVE ForceMarks(_, _)
ForceMarks(st, items) ==
    IF items = << >> THEN st
    ELSE LET p == CONTENT_DIR_NAME \o <<Head(items)>>
             deleteFilename == Append(Parent(p), DestName(Last(p).base,
                                                          PENDING_DELETE_EXTENSION))
         IN ForceMarks(RunState(Rename(st.fs, p, deleteFilename), st.commit,
                                Append(st.delete, Tail(deleteFilename)), st.result),
                       Tail(items))

\* the phases after cur, each run to its end, until one fails or the
\* snapshot is next
RECURSIVE RunPhases(_, _, _, _)
RunPhases(cur, st, src, diffs) ==
    LET next == NextPhase(cur, diffs, Range(st.commit), Range(st.delete), st.result)
    IN IF next \in {"failed", "snapshot"} THEN [st EXCEPT !.result = IF next = "failed" THEN -1 ELSE 0]
       ELSE RunPhases(next,
                      RunTasks(st, src, TaskList(next, diffs, st.commit, st.delete)),
                      src, diffs)

\* Backup from its entry to its return
BackupRun(fs, snapshot, pending, temp, src, excludes, force) ==
    LET local == Calculate(src, excludes)
        dest == IF force \/ ~snapshot.exists THEN EmptyRoot ELSE LoadPersisted(snapshot)
        diffs == CalculateDiffs(local, dest)
        cleaned == CleanupImpl(fs, pending, temp)
        content == MakeDirs(cleaned.fs, CONTENT_DIR_NAME)
        listed == IF force
                  THEN SeqOfSet(ListDirs(content, CONTENT_DIR_NAME))
                        \o SeqOfSet(ListFiles(content, CONTENT_DIR_NAME))
                  ELSE << >>
        marked == ForceMarks(RunState(content, << >>, << >>, 0), listed)
        st == RunPhases("content", marked, src, diffs)
    IN [fs |-> st.fs,
        diffs |-> diffs,
        result |-> st.result,
        snapshot |-> IF st.result = 0 THEN SnapshotFile(local) ELSE snapshot,
        pending |-> IF st.result = 0 THEN NoFile ELSE SnapshotFile(local),
        temp |-> NoFile]

\* after a kill, Backup is run again on the same source with the same
\* file_excludes and force, on a destination that does not execute in
\* parallel, and is left to return
MRerun ==
    /\ mPc = "killed"
    /\ \E r \in {BackupRun(mFs, mSnapshot, mPendingSnapshot, mTempSnapshot,
                            mSrc, mExcludes, mForce)} :
          /\ mFs' = r.fs
          /\ mDiffs' = r.diffs
          /\ mSnapshot' = r.snapshot
          /\ mPendingSnapshot' = r.pending
          /\ mTempSnapshot' = r.temp
          /\ mPc' = IF r.result = 0 THEN "redone" ELSE "refailed"
          /\ mOutcome' = IF r.result = 0 THEN "redone" ELSE "refailed"
    /\ mClean' = NoClean
    /\ mCall' = NoCall
    /\ UNCHANGED <<mSrc, mExcludes, mForce, mLocal, mTodo, mRunning, mPendingCommit,
                   mPendingDelete, mResult, mPhases, mRuns, mPre, mPreSnapshot>>
    /\ UNCHANGED <<diffVars, offsiteVars, calcVars, preserveVars, restoreVars,
                   treeVars, filterVars, deliverVars>>

NextMirror ==
    \/ MBegin
    \/ MWriteSnapshot
    \/ MStageSnapshot
    \/ MMakeContent
    \/ MForceMark
    \/ MAdvance
    \/ MStartTask
    \/ MStepTask
    \/ MRemoveDirPartly
    \/ MUnlinkSnapshot
    \/ MCommitSnapshot
    \/ MKill
    \/ MCleanup
    \/ MRerun

-----------------------------------------------------------------------------
(* Offsite: the content of a backup directory *)

IsFileHash(hash) == hash # None /\ hash # DirHashPlaceholder

\* DiffResult.ToJson: the hash and size keys are written for files only; a
\* key that is not written reads back as None (item.get(key, None))
DiffToJson(d) ==
    [operation |-> d.operation,
     path |-> d.path,
     this_hash |-> IF IsFileHash(d.this_hash) THEN d.this_hash ELSE None,
     this_file_size |-> IF IsFileHash(d.this_hash) THEN d.this_file_size ELSE None,
     other_hash |-> IF IsFileHash(d.other_hash) THEN d.other_hash ELSE None,
     other_file_size |-> IF IsFileHash(d.other_hash) THEN d.other_file_size ELSE None]

NameRank(n) == CHOOSE i \in DOMAIN NameOrder : NameOrder[i] = n

\* str(p) < str(q): "." for the path with no parts, "/s/a" otherwise
RECURSIVE PathLess(_, _)
PathLess(p, q) ==
    IF p = << >> THEN q # << >>
    ELSE IF q = << >> THEN FALSE
    ELSE IF p[1] = q[1] THEN PathLess(Tail(p), Tail(q))
    ELSE NameRank(p[1]) < NameRank(q[1])

\* these_diffs.sort(key=lambda value: str(value.path))
RECURSIVE SortDiffs(_)
SortDiffs(diffs) ==
    IF diffs = << >> THEN << >>
    ELSE LET least == CHOOSE i \in DOMAIN diffs :
                        \A j \in DOMAIN diffs : ~PathLess(diffs[j].path, diffs[i].path)
             rest == [k \in 1..(Len(diffs) - 1) |->
                        IF k < least THEN diffs[k] ELSE diffs[k + 1]]
         IN <<diffs[least]>> \o SortDiffs(rest)

ToJsonAll(diffs) == [i \in DOMAIN diffs |-> DiffToJson(diffs[i])]

\* index.json: the removes, the adds, the modifies, each sorted by path
IndexOf(diffs) ==
    ToJsonAll(SortDiffs(diffs.remove))
        \o ToJsonAll(SortDiffs(diffs.add))
        \o ToJsonAll(SortDiffs(diffs.modify))

\* the hashes of the files of a snapshot: offsite_file_lookup at its start
FileHashes(root) == {e.node.hash : e \in {x \in Enum(root) : x.node.kind = "file"}}

\* diffs_to_process: the added and modified files whose hash is not in the
\* lookup; the content directory holds one file per such hash
BlobsOf(diffs, offsite) ==
    {d.this_hash : d \in {x \in Range(diffs.add) \cup Range(diffs.modify) :
                            IsFileHash(x.this_hash)}}
        \ FileHashes(offsite)

\* a backup directory: primary or delta (DELTA_SUFFIX), its index, its
\* content files by hash; and, as history, the snapshot it was made of
\* and whether that snapshot became the committed one
BackupDir(primary, diffs, offsite, local, committed) ==
    [primary |-> primary, index |-> IndexOf(diffs), blobs |-> BlobsOf(diffs, offsite),
     tree |-> local, committed |-> committed]

-----------------------------------------------------------------------------
(* Offsite: Restore *)

\* PathToFilename with dir_substitutions {"/s": "/r"}: str.replace on the
\* text of the path
PathToFilename(path) == [i \in DOMAIN path |-> IF path[i] = "s" THEN "r" ELSE path[i]]

\* a commit action queued by WriteImpl or OnRemoveInstruction; origin is the
\* instruction that queued it: the number of its directory in the replay
\* chain and its place among the instructions of that directory
CommitAction(kind, path, hash, origin) ==
    [kind |-> kind, path |-> path, hash |-> hash, origin |-> origin]

\* the instructions of a directory when no record is tested against
\* file_hashes
RECURSIVE ReadInstructionsUntested(_, _, _, _)
ReadInstructionsUntested(items, fileHashes, directory, acc) ==
    IF items = << >> THEN [raised |-> FALSE, instructions |-> acc, hashes |-> fileHashes]
    ELSE LET item == Head(items)
         IN ReadInstructionsUntested(
                Tail(items),
                IF item.operation = "remove" \/ item.this_hash = None THEN fileHashes
                ELSE fileHashes \cup {item.this_hash},
                directory,
                Append(acc, [operation |-> item.operation,
                             file_content |-> IF item.operation = "remove"
                                              THEN None ELSE item.this_hash,
                             local_filename |-> PathToFilename(item.path),
                             origin |-> <<directory, Len(acc) + 1>>]))

\* "Staging working content...": the instructions of the directories in
\* order, with file_hashes growing; an exception ends it
RECURSIVE ReadInstructions(_, _, _, _)
ReadInstructions(items, fileHashes, directory, acc) ==
    IF items = << >> THEN [raised |-> FALSE, instructions |-> acc, hashes |-> fileHashes]
    ELSE LET item == Head(items)
         IN IF item.operation = "modify" /\ item.other_hash \notin fileHashes
            THEN [raised |-> TRUE, instructions |-> acc, hashes |-> fileHashes]
            ELSE IF item.operation = "remove" /\ item.other_hash # None
                    /\ item.other_hash \notin fileHashes
            THEN [raised |-> TRUE, instructions |-> acc, hashes |-> fileHashes]
            ELSE ReadInstructions(
                    Tail(items),
                    IF item.operation = "remove" \/ item.this_hash = None THEN fileHashes
                    ELSE fileHashes \cup {item.this_hash},
                    directory,
                    Append(acc, [operation |-> item.operation,
                                 file_content |-> IF item.operation = "remove"
                                                  THEN None ELSE item.this_hash,
                                 local_filename |-> PathToFilename(item.path),
                                 origin |-> <<directory, Len(acc) + 1>>]))

RECURSIVE ReadDirectories(_, _, _)
ReadDirectories(dirs, fileHashes, acc) ==
    IF dirs = << >> THEN [raised |-> FALSE, instructions |-> acc]
    ELSE LET r == ReadInstructions(Head(dirs).index, fileHashes, Len(acc) + 1, << >>)
         IN IF r.raised THEN [raised |-> TRUE, instructions |-> acc]
            ELSE ReadDirectories(Tail(dirs), r.hashes, Append(acc, r.instructions))

\* OnAddInstruction when every existing item may be replaced
OnAddInstructionReplaces(target, local_filename, overwrite) == "write"

\* OnAddInstruction: an error when the local item exists and overwrite is
\* not set, WriteImpl otherwise
OnAddInstruction(target, local_filename, overwrite) ==
    IF GetItemType(target, local_filename) # "none" /\ ~overwrite
    THEN "error" ELSE "write"

\* no instruction has reported an error
NoOrigin == << >>

\* "Processing instructions..." for one directory: commit actions are
\* queued until an instruction reports an error
RECURSIVE QueueInstructions(_, _, _, _, _)
QueueInstructions(instructions, target, staged, overwrite, acc) ==
    IF instructions = << >> THEN [failed |-> NoOrigin, actions |-> acc]
    ELSE LET i == Head(instructions)
             rest == Tail(instructions)
         IN IF i.operation = "remove"
            THEN QueueInstructions(rest, target, staged, overwrite,
                    Append(acc, CommitAction("remove", i.local_filename, None, i.origin)))
            ELSE IF i.operation = "add"
                    /\ OnAddInstruction(target, i.local_filename, overwrite) = "error"
            THEN [failed |-> i.origin, actions |-> acc]
            ELSE IF i.file_content = None
            THEN QueueInstructions(rest, target, staged, overwrite,
                    Append(acc, CommitAction("dir", i.local_filename, None, i.origin)))
            ELSE IF i.file_content \notin staged
            THEN [failed |-> i.origin, actions |-> acc]
            ELSE QueueInstructions(rest, target, staged, overwrite,
                    Append(acc, CommitAction("file", i.local_filename, i.file_content,
                                             i.origin)))

\* the directories one after the other; an error in one ends the loop
RECURSIVE QueueDirectories(_, _, _, _, _)
QueueDirectories(perDirectory, target, staged, overwrite, acc) ==
    IF perDirectory = << >> THEN [failed |-> NoOrigin, actions |-> acc]
    ELSE LET r == QueueInstructions(Head(perDirectory), target, staged, overwrite, acc)
         IN IF r.failed # NoOrigin THEN r
            ELSE QueueDirectories(Tail(perDirectory), target, staged, overwrite, r.actions)

\* CommitDir, CommitFile and RemoveItem.  The path with no parts is ".", the
\* current directory: rmtree empties it and then raises.
RunCommitAction(target, a, cwdIsTarget) ==
    IF a.path = << >>
    THEN [raised |-> a.kind = "remove",
          target |-> IF cwdIsTarget THEN {} ELSE target]
    ELSE IF a.kind = "remove"
    THEN [raised |-> FALSE, target |-> RemoveItem(target, a.path)]
    ELSE IF a.kind = "dir"
    THEN [raised |-> FALSE, target |-> MakeDirs(RemoveItem(target, a.path), a.path)]
    ELSE [raised |-> MakeDirsRaises(RemoveItem(target, a.path), Parent(a.path)),
          target |-> MakeDirs(RemoveItem(target, a.path), Parent(a.path))
                        \cup {Entry(a.path, a.hash)}]

\* "Committing content...": every queued action in order; an exception
\* ends it
RECURSIVE RunCommitActions(_, _, _)
RunCommitActions(target, actions, cwdIsTarget) ==
    IF actions = << >> THEN [raised |-> FALSE, target |-> target]
    ELSE LET r == RunCommitAction(target, Head(actions), cwdIsTarget)
         IN IF r.raised THEN [raised |-> TRUE, target |-> r.target]
            ELSE RunCommitActions(r.target, Tail(actions), cwdIsTarget)

\* all_directories: the names found under the backup name, sorted.  A name
\* is the time of its backup, so the n-th name in order is that of the n-th
\* directory written; the listing gives the names in any order.
RECURSIVE SortedListing(_)
SortedListing(listed) ==
    IF listed = {} THEN << >>
    ELSE LET least == CHOOSE i \in listed : \A j \in listed : i <= j
         IN <<least>> \o SortedListing(listed \ {least})

\* primary_indexes: the places in all_directories of the names without
\* DELTA_SUFFIX
PrimaryIndexes(dirs) == {i \in DOMAIN dirs : dirs[i].primary}

\* the replay chain when every listed directory is replayed
ReplayChainWhole(all_directories, primary_indexes) == all_directories

\* directories = all_directories[primary_indexes[-1]:]
ReplayChain(all_directories, primary_indexes) ==
    SubSeq(all_directories,
           CHOOSE i \in primary_indexes : \A j \in primary_indexes : j <= i,
           Len(all_directories))

NoReplay == [replayed |-> << >>, actions |-> << >>, failed |-> NoOrigin]

\* the instructions processed whether or not dry_run is set
ProcessedInstructionsAll(perDirectory, dry_run) == perDirectory

\* "if not dry_run: for instruction_index, instruction in ...": with
\* dry_run the table of every directory is written and nothing else
ProcessedInstructions(perDirectory, dry_run) ==
    IF dry_run THEN [d \in DOMAIN perDirectory |-> << >>] ELSE perDirectory

\* Restore of the listed directories of the offsite location into target:
\* how it ended, the target, and what it replayed, queued and reported
Restore(dirs, listed, target, overwrite, cwdIsTarget, dry_run) ==
    LET all_directories == SortedListing(listed)
        primary_indexes == PrimaryIndexes([k \in DOMAIN all_directories |->
                                                dirs[all_directories[k]]])
    IN IF Cardinality(primary_indexes) # 1
       THEN [result |-> "error", target |-> target] @@ NoReplay
       ELSE LET replayed == ReplayChain(all_directories, primary_indexes)
                directories == [k \in DOMAIN replayed |-> dirs[replayed[k]]]
                staged == UNION {directories[i].blobs : i \in DOMAIN directories}
                read == ReadDirectories(directories, {}, << >>)
                queued == QueueDirectories(ProcessedInstructions(read.instructions, dry_run),
                                           target, staged,
                                           overwrite, << >>)
                done == RunCommitActions(target, queued.actions, cwdIsTarget)
            IN IF read.raised
               THEN [result |-> "raised", target |-> target, replayed |-> replayed,
                     actions |-> << >>, failed |-> NoOrigin]
               ELSE [result |-> IF done.raised THEN "raised" ELSE "done",
                     target |-> done.target, replayed |-> replayed,
                     actions |-> queued.actions, failed |-> queued.failed]
-----------------------------------------------------------------------------
(* Offsite: Backup, Commit and Restore as actions *)

\* the number of Backup calls that write a backup directory
MaxBackups == 3

\* the number of Restore calls into the one target
MaxRestores == 1

\* the inputs of the offsite backups: /s/a alone, scanned with nothing
\* excluded or with "a" excluded
OffsiteSources == {s \in Sources : GetItemType(s, InputDir \o <<"b">>) = "none"}

OffsiteExcludeOptions == {{}, {"a"}}

OffsiteScans == {Calculate(s, x) : s \in OffsiteSources, x \in OffsiteExcludeOptions}

\* destination: None, or the connection string of a data store
Destinations == {"none", "file"}

NoOperation ==
    [op |-> "none", outcome |-> "none", destination |-> "none", ignore |-> FALSE,
     commit |-> TRUE, local |-> NoFile, standard |-> NoFile, pending |-> NoFile,
     chain |-> 0, staged |-> 0]

\* what a local directory holds when Restore is asked to write into it:
\* nothing, or the directory /r/a
RestoreTargets == {{}, MakeDirs({}, PathToFilename(InputDir \o <<"a">>))}

NoRestore ==
    [count |-> 0, result |-> "none", listed |-> {}, before |-> {},
     overwrite |-> FALSE, dry_run |-> FALSE] @@ NoReplay

OffsiteInit ==
    /\ oStandard = NoFile
    /\ oPending = NoFile
    /\ oChain = << >>
    /\ oStaged = << >>
    /\ oLast = NoOperation
    /\ oTarget = {}
    /\ oRestore = NoRestore
    /\ oRuns = 0

OffsiteIdle == OffsiteInit

\* the check of the pending snapshot when Backup starts
PendingCheckLax(pendingExists, ignore_pending_snapshot) ==
    IF pendingExists /\ ~ignore_pending_snapshot THEN "error" ELSE "proceed"

PendingCheck(pendingExists, ignore_pending_snapshot) ==
    IF pendingExists
    THEN IF ~ignore_pending_snapshot THEN "error" ELSE "proceed"
    ELSE IF ignore_pending_snapshot THEN "error" ELSE "proceed"

\* the committed snapshot when the data store has taken the content
StandardNeverPersisted(standard, local, commit_pending_snapshot) == standard

StandardAfterCommit(standard, local, commit_pending_snapshot) ==
    IF commit_pending_snapshot THEN SnapshotFile(local) ELSE standard

\* what the last call was given and found, as far as it got: the scan and the
\* destination are recorded once the call has reached them
Operation(op, outcome, ignore, local, destination, commit) ==
    [op |-> op, outcome |-> outcome, destination |-> destination, ignore |-> ignore,
     commit |-> commit, local |-> local, standard |-> oStandard, pending |-> oPending,
     chain |-> Len(oChain), staged |-> Len(oStaged)]

\* a Backup that goes on whatever the diffs are
AnyDiffsAlways(diffs) == TRUE

\* any(diff_items for diff_items in diffs.values())
AnyDiffs(diffs) == diffs.add # << >> \/ diffs.modify # << >> \/ diffs.remove # << >>

OBackup ==
    /\ oRestore.count = 0
    /\ oRuns < MaxBackups
    /\ \E local \in OffsiteScans, destination \in Destinations,
          force \in BOOLEAN, ignore \in BOOLEAN, commit \in BOOLEAN :
        LET forced == force \/ ~oStandard.exists
            offsite == IF forced THEN EmptyRoot ELSE LoadPersisted(oStandard)
            diffs == CalculateDiffs(local, offsite)
            dir == BackupDir(forced, diffs, offsite, local,
                             destination = "none" \/ commit)
            done == Operation("backup", "done", ignore, SnapshotFile(local),
                              destination, commit)
        IN IF PendingCheck(oPending.exists, ignore) = "error"
           THEN /\ oLast' = Operation("backup", "error", ignore, NoFile, "none", TRUE)
                /\ UNCHANGED <<oStandard, oPending, oChain, oStaged, oRuns>>
           ELSE IF ~AnyDiffs(diffs)
           THEN /\ oLast' = Operation("backup", "nodiffs", ignore, SnapshotFile(local),
                                          "none", TRUE)
                /\ oPending' = NoFile
                /\ oStaged' = << >>
                /\ UNCHANGED <<oStandard, oChain, oRuns>>
           ELSE IF destination = "none"
           THEN /\ oLast' = done
                /\ oPending' = SnapshotFile(local)
                /\ oStaged' = <<dir>>
                /\ oRuns' = oRuns + 1
                /\ UNCHANGED <<oStandard, oChain>>
           ELSE /\ oLast' = done
                /\ oPending' = NoFile
                /\ oStaged' = << >>
                /\ oChain' = Append(oChain, dir)
                /\ oRuns' = oRuns + 1
                /\ oStandard' = StandardAfterCommit(oStandard, local, commit)
    /\ UNCHANGED <<oTarget, oRestore>>
    /\ UNCHANGED <<diffVars, mirrorVars, calcVars, preserveVars, restoreVars,
                   treeVars, filterVars, deliverVars>>

\* the two snapshot files when Commit leaves the pending one where it is
MovePendingKept(standard, pending) == [standard |-> pending, pending |-> pending]

\* snapshot_filenames.standard.unlink(missing_ok=True) and then
\* shutil.move(snapshot_filenames.pending, snapshot_filenames.standard)
MovePending(standard, pending) == [standard |-> pending, pending |-> NoFile]

\* Commit; the directory left in the working directory is at the offsite
\* location by then
OCommit ==
    /\ oRestore.count = 0
    /\ IF ~oPending.exists
       THEN /\ oLast' = Operation("commit", "error", FALSE, NoFile, "none", TRUE)
            /\ UNCHANGED <<oStandard, oPending, oChain, oStaged>>
       ELSE /\ oLast' = Operation("commit", "done", FALSE, oPending, "none", TRUE)
            /\ oStandard' = MovePending(oStandard, oPending).standard
            /\ oPending' = MovePending(oStandard, oPending).pending
            /\ oChain' = oChain \o oStaged
            /\ oStaged' = << >>
    /\ UNCHANGED <<oTarget, oRestore, oRuns>>
    /\ UNCHANGED <<diffVars, mirrorVars, calcVars, preserveVars, restoreVars,
                   treeVars, filterVars, deliverVars>>

\* Commit killed after snapshot_filenames.standard.unlink(missing_ok=True)
\* and before shutil.move: the committed snapshot is gone and the pending
\* one is where it was.  (With no committed snapshot the kill leaves both
\* files as they were.)
OCommitKilled ==
    /\ oRestore.count = 0
    /\ oPending.exists
    /\ oStandard.exists
    /\ oLast' = Operation("commitkill", "killed", FALSE, oPending, "none", TRUE)
    /\ oStandard' = NoFile
    /\ UNCHANGED <<oPending, oChain, oStaged, oTarget, oRestore, oRuns>>
    /\ UNCHANGED <<diffVars, mirrorVars, calcVars, preserveVars, restoreVars,
                   treeVars, filterVars, deliverVars>>

\* Restore: the directories listed at the offsite location are all that
\* were written, or the later ones when the earlier ones have been deleted.
\* With dry_run nothing is done in the target, whatever the current
\* directory is.
ORestore ==
    /\ oRestore.count < MaxRestores
    /\ \E overwrite \in BOOLEAN, cwdIsTarget \in BOOLEAN,
          before \in RestoreTargets, oldest \in 1..MaxBackups,
          dry_run \in BOOLEAN :
        LET listed == oldest..Len(oChain)
            r == Restore(oChain, listed, before, overwrite, cwdIsTarget, dry_run)
        IN /\ oldest <= Len(oChain) \/ oldest = 1
           /\ dry_run => ~cwdIsTarget
           /\ oTarget' = r.target
           /\ oRestore' = [count |-> oRestore.count + 1, result |-> r.result,
                           listed |-> listed, before |-> before,
                           overwrite |-> overwrite, dry_run |-> dry_run,
                           replayed |-> r.replayed,
                           actions |-> r.actions, failed |-> r.failed]
    /\ UNCHANGED <<oStandard, oPending, oChain, oStaged, oLast, oRuns>>
    /\ UNCHANGED <<diffVars, mirrorVars, calcVars, preserveVars, restoreVars,
                   treeVars, filterVars, deliverVars>>

NextOffsite == OBackup \/ OCommit \/ OCommitKilled \/ ORestore

-----------------------------------------------------------------------------
(* SpecCalculate: Snapshot.Calculate of /s, its hashing tasks step by step,
   while files of the source are deleted *)

\* the files that may be deleted during one Calculate
MaxDeletes == 1

\* what a hashing task returned: nothing yet, None, a (hash, size), or an
\* exception
NoInfo == [state |-> "todo", hash |-> None, size |-> None]

SkippedInfo == [state |-> "skipped", hash |-> None, size |-> None]

RaisedInfo == [state |-> "raised", hash |-> None, size |-> None]

FileInfo(hash, size) == [state |-> "done", hash |-> hash, size |-> size]

\* a worker in a task: the index of its file, its step, and the hash it has
\* computed
Hashing(index, step, hash) == [index |-> index, step |-> step, hash |-> hash]

CalcIdle ==
    /\ cFs = {Entry(<<"/">>, IsDirVal), Entry(InputDir, IsDirVal)}
    /\ cCalculateHashes = TRUE
    /\ cPc = "call"
    /\ cFilenames = << >>
    /\ cEmptyDirs = << >>
    /\ cTodo = {}
    /\ cRunning = {}
    /\ cInfos = << >>
    /\ cResult = 0
    /\ cSnapshot = NoNode
    /\ cStart = cFs
    /\ cDeleted = {}

CalcInit ==
    /\ cFs \in Sources
    /\ cCalculateHashes \in BOOLEAN
    /\ cPc = "call"
    /\ cFilenames = << >>
    /\ cEmptyDirs = << >>
    /\ cTodo = {}
    /\ cRunning = {}
    /\ cInfos = << >>
    /\ cResult = 0
    /\ cSnapshot = NoNode
    /\ cStart = cFs
    /\ cDeleted = {}

\* "Discovering files...", and the return of the empty snapshot when
\* nothing was found
CDiscover ==
    /\ cPc = "call"
    /\ LET info == Discover(cFs, WalkFrom(cFs, InputDir), {})
       IN /\ cFilenames' = info.filenames
          /\ cEmptyDirs' = info.empty_dirs
          /\ cInfos' = [i \in DOMAIN info.filenames |-> NoInfo]
          /\ cTodo' = DOMAIN info.filenames
          /\ IF info.filenames = << >> /\ info.empty_dirs = << >>
             THEN cPc' = "done" /\ cSnapshot' = EmptyRoot
             ELSE cPc' = "hash" /\ cSnapshot' = NoNode
    /\ UNCHANGED <<cFs, cCalculateHashes, cRunning, cResult, cStart, cDeleted>>
    /\ UNCHANGED <<diffVars, mirrorVars, offsiteVars, preserveVars, restoreVars,
                   treeVars, filterVars, deliverVars>>

\* a worker takes a hashing task
CStartTask ==
    /\ cPc = "hash"
    /\ Cardinality(cRunning) < NumWorkers
    /\ \E i \in cTodo :
        /\ cTodo' = cTodo \ {i}
        /\ cRunning' = cRunning \cup {Hashing(i, 0, None)}
    /\ UNCHANGED <<cFs, cCalculateHashes, cPc, cFilenames, cEmptyDirs, cInfos, cResult,
                   cSnapshot, cStart, cDeleted>>
    /\ UNCHANGED <<diffVars, mirrorVars, offsiteVars, preserveVars, restoreVars,
                   treeVars, filterVars, deliverVars>>

\* the next step of a hashing task on the file at path: the step that
\* follows and, when the task ends, what it returns.
\*   0  PrepareTask: "if data_store.GetItemType(input_item) is None"
\*   1  PrepareTask: data_store.GetFileSize(input_item)
\*   2  Execute: "if data_store.GetItemType(input_item) is None: return None"
\*   3  Execute: CalculateHash, which opens the file
\*   4  Execute: data_store.GetFileSize(input_item)
\* Open and stat raise FileNotFoundError on a file that is gone.
HashStep(fs, path, step, hash, calculate_hashes) ==
    LET gone == GetItemType(fs, path) = "none"
    IN IF step = 0 THEN [next |-> IF gone THEN 2 ELSE 1, hash |-> hash, info |-> NoInfo]
       ELSE IF step = 1
       THEN IF gone THEN [next |-> 5, hash |-> hash, info |-> RaisedInfo]
            ELSE [next |-> 2, hash |-> hash, info |-> NoInfo]
       ELSE IF step = 2
       THEN IF gone THEN [next |-> 5, hash |-> hash, info |-> SkippedInfo]
            ELSE IF calculate_hashes THEN [next |-> 3, hash |-> hash, info |-> NoInfo]
            ELSE [next |-> 4, hash |-> NotCalculated, info |-> NoInfo]
       ELSE IF step = 3
       THEN IF gone THEN [next |-> 5, hash |-> hash, info |-> RaisedInfo]
            ELSE [next |-> 4, hash |-> HashOf(ValAt(fs, path)), info |-> NoInfo]
       ELSE IF gone THEN [next |-> 5, hash |-> hash, info |-> RaisedInfo]
            ELSE [next |-> 5, hash |-> hash, info |-> FileInfo(hash, SizeOf(ValAt(fs, path)))]

\* a worker makes the next step of its task; an exception in a task sets
\* the result of the TransformTasksEx call
CStepTask ==
    /\ cPc = "hash"
    /\ \E r \in cRunning :
        LET o == HashStep(cFs, cFilenames[r.index], r.step, r.hash, cCalculateHashes)
        IN /\ cRunning' = (cRunning \ {r})
                \cup (IF o.next = 5 THEN {} ELSE {Hashing(r.index, o.next, o.hash)})
           /\ cInfos' = IF o.next = 5 THEN [cInfos EXCEPT ![r.index] = o.info] ELSE cInfos
           /\ cResult' = IF o.info.state = "raised" THEN -1 ELSE cResult
    /\ UNCHANGED <<cFs, cCalculateHashes, cPc, cFilenames, cEmptyDirs, cTodo, cSnapshot,
                   cStart, cDeleted>>
    /\ UNCHANGED <<diffVars, mirrorVars, offsiteVars, preserveVars, restoreVars,
                   treeVars, filterVars, deliverVars>>

\* another process deletes a discovered file whose task has not ended
CDelete ==
    /\ cPc = "hash"
    /\ Cardinality(cDeleted) < MaxDeletes
    /\ \E i \in DOMAIN cFilenames :
        /\ cInfos[i].state = "todo"
        /\ GetItemType(cFs, cFilenames[i]) = "file"
        /\ cFs' = RemoveItem(cFs, cFilenames[i])
        /\ cDeleted' = cDeleted \cup {cFilenames[i]}
    /\ UNCHANGED <<cCalculateHashes, cPc, cFilenames, cEmptyDirs, cTodo, cRunning, cInfos,
                   cResult, cSnapshot, cStart>>
    /\ UNCHANGED <<diffVars, mirrorVars, offsiteVars, preserveVars, restoreVars,
                   treeVars, filterVars, deliverVars>>

\* "Organizing results...": AddFile for every file_info that is not None
RECURSIVE AddFileInfos(_, _, _, _)
AddFileInfos(root, filenames, infos, i) ==
    IF i > Len(filenames) THEN root
    ELSE AddFileInfos(
            IF infos[i].state = "skipped" THEN root
            ELSE AddFile(root, filenames[i], infos[i].hash, infos[i].size, FALSE).node,
            filenames, infos, i + 1)

\* the TransformTasksEx call has returned: "if hashes_dm.result != 0: raise",
\* else the snapshot is organized and returned
COrganize ==
    /\ cPc = "hash"
    /\ cTodo = {}
    /\ cRunning = {}
    /\ IF cResult # 0
       THEN cPc' = "raised" /\ cSnapshot' = NoNode
       ELSE /\ cPc' = "done"
            /\ cSnapshot' = AddDirs(AddFileInfos(EmptyRoot, cFilenames, cInfos, 1),
                                    cEmptyDirs)
    /\ UNCHANGED <<cFs, cCalculateHashes, cFilenames, cEmptyDirs, cTodo, cRunning, cInfos,
                   cResult, cStart, cDeleted>>
    /\ UNCHANGED <<diffVars, mirrorVars, offsiteVars, preserveVars, restoreVars,
                   treeVars, filterVars, deliverVars>>

NextCalc == CDiscover \/ CStartTask \/ CStepTask \/ CDelete \/ COrganize

-----------------------------------------------------------------------------
(* SpecPreserve: "Preparing file content..." of one Offsite.Backup: the
   diffs to process are gathered, then a task per diff copies the content *)

\* a worker in a copy task: the index of its diff and its step
Copying(index, step) == [index |-> index, step |-> step]

\* the name of the content file of a hash, aa/bb/<hash>, or the temporary
\* name Common.WriteFile writes it under
ContentName(hash, temp) == [hash |-> hash, temp |-> temp]

\* a gathering loop that does not consult the lookup
GatherDiffAlways(fs, diff, toProcess, lookup) ==
    IF GetItemType(fs, diff.path) # "file"
    THEN [toProcess |-> toProcess, lookup |-> lookup]
    ELSE [toProcess |-> Append(toProcess, diff), lookup |-> lookup \cup {diff.this_hash}]

\* the body of the gathering loop for one diff: "if not diff.path.is_file():
\* continue", "if diff.this_hash in offsite_file_lookup: continue", else the
\* diff is appended and its hash added to the lookup
GatherDiff(fs, diff, toProcess, lookup) ==
    IF GetItemType(fs, diff.path) # "file"
    THEN [toProcess |-> toProcess, lookup |-> lookup]
    ELSE IF diff.this_hash \in lookup
    THEN [toProcess |-> toProcess, lookup |-> lookup]
    ELSE [toProcess |-> Append(toProcess, diff), lookup |-> lookup \cup {diff.this_hash}]

\* the committed snapshots a Backup may find at the offsite
PreserveOffsites == {EmptyRoot} \cup {Calculate(s, {}) : s \in OffsiteSources}

PreserveIdle ==
    /\ pSrc = {Entry(<<"/">>, IsDirVal), Entry(InputDir, IsDirVal)}
    /\ pOffsite = EmptyRoot
    /\ pDiffs = << >>
    /\ pLookup = {}
    /\ pIndex = 0
    /\ pToProcess = << >>
    /\ pPc = "gather"
    /\ pTodo = {}
    /\ pRunning = {}
    /\ pStore = {}
    /\ pResult = 0
    /\ pCopied = {}

\* Backup has computed its diffs and, "if diffs[add] or diffs[modify]", has
\* filled the lookup with the hashes of the files of the offsite snapshot
PreserveInit ==
    /\ pSrc \in Sources
    /\ pOffsite \in PreserveOffsites
    /\ LET diffs == CalculateDiffs(Calculate(pSrc, {}), pOffsite)
       IN /\ diffs.add \o diffs.modify # << >>
          /\ pDiffs = diffs.add \o diffs.modify
    /\ pLookup = FileHashes(pOffsite)
    /\ pIndex = 0
    /\ pToProcess = << >>
    /\ pPc = "gather"
    /\ pTodo = {}
    /\ pRunning = {}
    /\ pStore = {}
    /\ pResult = 0
    /\ pCopied = {}

\* one turn of the gathering loop
PGather ==
    /\ pPc = "gather"
    /\ pIndex < Len(pDiffs)
    /\ LET g == GatherDiff(pSrc, pDiffs[pIndex + 1], pToProcess, pLookup)
       IN /\ pToProcess' = g.toProcess
          /\ pLookup' = g.lookup
    /\ pIndex' = pIndex + 1
    /\ UNCHANGED <<pSrc, pOffsite, pDiffs, pPc, pTodo, pRunning, pStore, pResult, pCopied>>
    /\ UNCHANGED <<diffVars, mirrorVars, offsiteVars, calcVars, restoreVars,
                   treeVars, filterVars, deliverVars>>

\* "if diffs_to_process": the TransformTasksEx call with a task per diff
PPreserve ==
    /\ pPc = "gather"
    /\ pIndex = Len(pDiffs)
    /\ pPc' = IF pToProcess = << >> THEN "done" ELSE "preserve"
    /\ pTodo' = DOMAIN pToProcess
    /\ UNCHANGED <<pSrc, pOffsite, pDiffs, pLookup, pIndex, pToProcess, pRunning, pStore,
                   pResult, pCopied>>
    /\ UNCHANGED <<diffVars, mirrorVars, offsiteVars, calcVars, restoreVars,
                   treeVars, filterVars, deliverVars>>

\* a worker takes a copy task
PStartTask ==
    /\ pPc = "preserve"
    /\ Cardinality(pRunning) < NumWorkers
    /\ \E i \in pTodo :
        /\ pTodo' = pTodo \ {i}
        /\ pRunning' = pRunning \cup {Copying(i, 0)}
    /\ UNCHANGED <<pSrc, pOffsite, pDiffs, pLookup, pIndex, pToProcess, pPc, pStore,
                   pResult, pCopied>>
    /\ UNCHANGED <<diffVars, mirrorVars, offsiteVars, calcVars, restoreVars,
                   treeVars, filterVars, deliverVars>>

\* the next step of a copy task:
\*   0  PrepareTask: the size of the file
\*   1  TransformTask: "if not diff.path.is_file(): raise"
\*   2  Common.WriteFile: the content is written under the temporary name
\*   3  Common.WriteFile: the temporary name is renamed to aa/bb/<hash>
PStepTask ==
    /\ pPc = "preserve"
    /\ \E r \in pRunning :
        LET diff == pToProcess[r.index]
            raises == r.step = 1 /\ GetItemType(pSrc, diff.path) # "file"
        IN /\ pRunning' = (pRunning \ {r})
                \cup (IF raises \/ r.step = 3 THEN {} ELSE {Copying(r.index, r.step + 1)})
           /\ pResult' = IF raises THEN -1 ELSE pResult
           /\ pStore' = IF r.step = 2 THEN pStore \cup {ContentName(diff.this_hash, TRUE)}
                        ELSE IF r.step = 3
                        THEN (pStore \ {ContentName(diff.this_hash, TRUE)})
                                \cup {ContentName(diff.this_hash, FALSE)}
                        ELSE pStore
           /\ pCopied' = IF r.step = 2
                         THEN pCopied \cup {[task |-> r.index, hash |-> diff.this_hash]}
                         ELSE pCopied
    /\ UNCHANGED <<pSrc, pOffsite, pDiffs, pLookup, pIndex, pToProcess, pPc, pTodo>>
    /\ UNCHANGED <<diffVars, mirrorVars, offsiteVars, calcVars, restoreVars,
                   treeVars, filterVars, deliverVars>>

\* the TransformTasksEx call has returned
PReturn ==
    /\ pPc = "preserve"
    /\ pTodo = {}
    /\ pRunning = {}
    /\ pPc' = IF pResult # 0 THEN "failed" ELSE "done"
    /\ UNCHANGED <<pSrc, pOffsite, pDiffs, pLookup, pIndex, pToProcess, pTodo, pRunning,
                   pStore, pResult, pCopied>>
    /\ UNCHANGED <<diffVars, mirrorVars, offsiteVars, calcVars, restoreVars,
                   treeVars, filterVars, deliverVars>>

NextPreserve == PGather \/ PPreserve \/ PStartTask \/ PStepTask \/ PReturn

-----------------------------------------------------------------------------
(* SpecRestore: Offsite.Restore of a chain of backup directories, its
   "Processing instructions..." loop one instruction at a time and its
   "Committing content..." loop one commit action at a time *)

\* the number of backups that made the chain at the offsite location
MaxChain == 2

\* the scans of the backups: every state of /s, nothing excluded
RestoreScans == {Calculate(s, {}) : s \in Sources}

\* the directory a Backup to a destination writes for the scan local when
\* the committed snapshot is standard
BackupOf(standard, local) ==
    LET forced == ~standard.exists
        offsite == IF forced THEN EmptyRoot ELSE LoadPersisted(standard)
    IN BackupDir(forced, CalculateDiffs(local, offsite), offsite, local, TRUE)

\* the offsite locations after at most n backups that found differences,
\* each with its committed snapshot
RECURSIVE Locations(_)
Locations(n) ==
    IF n = 0 THEN {[chain |-> << >>, standard |-> NoFile]}
    ELSE LET earlier == Locations(n - 1)
         IN earlier
              \cup UNION {{[chain |-> Append(l.chain, BackupOf(l.standard, local)),
                            standard |-> SnapshotFile(local)] :
                                local \in {s \in RestoreScans :
                                             BackupOf(l.standard, s).index # << >>}} :
                          l \in {x \in earlier : Len(x.chain) = n - 1}}

RestoreChains == {l.chain : l \in {x \in Locations(MaxChain) : x.chain # << >>}}

RestoreIdle ==
    /\ rChain = << >>
    /\ rBefore = {}
    /\ rOverwrite = FALSE
    /\ rContinue = FALSE
    /\ rDryRun = FALSE
    /\ rCwd = FALSE
    /\ rTarget = {}
    /\ rPc = "idle"
    /\ rInstructions = << >>
    /\ rDir = 1
    /\ rIdx = 1
    /\ rDirResult = 0
    /\ rActions = << >>
    /\ rRan = 0
    /\ rProcessed = {}

RestoreInit ==
    /\ rChain \in RestoreChains
    /\ rBefore \in RestoreTargets
    /\ rOverwrite \in BOOLEAN
    /\ rContinue \in BOOLEAN
    /\ rDryRun \in BOOLEAN
    /\ rCwd \in BOOLEAN
    /\ rDryRun => ~rCwd
    /\ rTarget = rBefore
    /\ rPc = "call"
    /\ rInstructions = << >>
    /\ rDir = 1
    /\ rIdx = 1
    /\ rDirResult = 0
    /\ rActions = << >>
    /\ rRan = 0
    /\ rProcessed = {}

\* the directories Restore replays: those from the last primary on
RestoreDirectories(chain) ==
    LET all_directories == SortedListing(DOMAIN chain)
        replayed == ReplayChain(all_directories, PrimaryIndexes(chain))
    IN [k \in DOMAIN replayed |-> chain[replayed[k]]]

\* the hashes whose content file is in the staging directory
StagedContent(chain) ==
    UNION {RestoreDirectories(chain)[i].blobs : i \in DOMAIN RestoreDirectories(chain)}

\* "Staging working content...": the instruction lists are built; an
\* exception on a record ends the Restore
RStage ==
    /\ rPc = "call"
    /\ IF Cardinality(PrimaryIndexes(rChain)) # 1
       THEN rPc' = "error" /\ rInstructions' = << >>
       ELSE LET read == ReadDirectories(RestoreDirectories(rChain), {}, << >>)
            IN IF read.raised
               THEN rPc' = "raised" /\ rInstructions' = << >>
               ELSE rPc' = "process" /\ rInstructions' = read.instructions
    /\ UNCHANGED <<rChain, rBefore, rOverwrite, rContinue, rDryRun, rCwd, rTarget,
                   rDir, rIdx, rDirResult, rActions, rRan, rProcessed>>
    /\ UNCHANGED <<diffVars, mirrorVars, offsiteVars, calcVars, preserveVars,
                   treeVars, filterVars, deliverVars>>

\* on_instruction_func(execute_dm, instruction): OnAddInstruction,
\* OnModifyInstruction or OnRemoveInstruction, and WriteImpl; the commit
\* action it registers, or the error it writes
OnInstruction(i, target, staged, overwrite) ==
    IF i.operation = "remove"
    THEN [error |-> FALSE,
          actions |-> <<CommitAction("remove", i.local_filename, None, i.origin)>>]
    ELSE IF i.operation = "add"
            /\ OnAddInstruction(target, i.local_filename, overwrite) = "error"
    THEN [error |-> TRUE, actions |-> << >>]
    ELSE IF i.file_content = None
    THEN [error |-> FALSE,
          actions |-> <<CommitAction("dir", i.local_filename, None, i.origin)>>]
    ELSE IF i.file_content \notin staged
    THEN [error |-> TRUE, actions |-> << >>]
    ELSE [error |-> FALSE,
          actions |-> <<CommitAction("file", i.local_filename, i.file_content,
                                     i.origin)>>]

\* whether the loop over the instructions of a directory ends after the
\* instruction at idx: it was the last one, or
\* "if execute_dm.result != 0 and not continue_on_errors: break"
LastOfDirectory(these_instructions, idx, error, continue_on_errors) ==
    idx = Len(these_instructions) \/ (error /\ ~continue_on_errors)

\* one instruction of the processing loop; after the last instruction of a
\* directory, "if instructions_dm.result != 0: break" ends the loop over
\* the directories
RInstruction ==
    /\ rPc = "process"
    /\ ~rDryRun
    /\ LET i == rInstructions[rDir][rIdx]
           o == OnInstruction(i, rTarget, StagedContent(rChain), rOverwrite)
           result == IF o.error THEN -1 ELSE rDirResult
       IN /\ rActions' = rActions \o o.actions
          /\ rProcessed' = rProcessed \cup {i.origin}
          /\ IF ~LastOfDirectory(rInstructions[rDir], rIdx, o.error, rContinue)
             THEN /\ rIdx' = rIdx + 1
                  /\ rDirResult' = result
                  /\ UNCHANGED <<rDir, rPc>>
             ELSE IF result # 0 \/ rDir = Len(rInstructions)
             THEN /\ rPc' = "commit"
                  /\ rDirResult' = result
                  /\ UNCHANGED <<rDir, rIdx>>
             ELSE /\ rDir' = rDir + 1
                  /\ rIdx' = 1
                  /\ rDirResult' = 0
                  /\ UNCHANGED rPc
    /\ UNCHANGED <<rChain, rBefore, rOverwrite, rContinue, rDryRun, rCwd, rTarget,
                   rInstructions, rRan>>
    /\ UNCHANGED <<diffVars, mirrorVars, offsiteVars, calcVars, preserveVars,
                   treeVars, filterVars, deliverVars>>

\* with dry_run the table of a directory is written and its instructions
\* are not processed
RTable ==
    /\ rPc = "process"
    /\ rDryRun
    /\ IF rDir = Len(rInstructions)
       THEN rPc' = "commit" /\ UNCHANGED rDir
       ELSE rDir' = rDir + 1 /\ UNCHANGED rPc
    /\ UNCHANGED <<rChain, rBefore, rOverwrite, rContinue, rDryRun, rCwd, rTarget,
                   rInstructions, rIdx, rDirResult, rActions, rRan, rProcessed>>
    /\ UNCHANGED <<diffVars, mirrorVars, offsiteVars, calcVars, preserveVars,
                   treeVars, filterVars, deliverVars>>

\* "for commit_action in commit_actions: commit_action()": the next one;
\* an exception ends the Restore
RCommit ==
    /\ rPc = "commit"
    /\ rRan < Len(rActions)
    /\ LET r == RunCommitAction(rTarget, rActions[rRan + 1], rCwd)
       IN /\ rTarget' = r.target
          /\ rRan' = rRan + 1
          /\ rPc' = IF r.raised THEN "raised" ELSE "commit"
    /\ UNCHANGED <<rChain, rBefore, rOverwrite, rContinue, rDryRun, rCwd,
                   rInstructions, rDir, rIdx, rDirResult, rActions, rProcessed>>
    /\ UNCHANGED <<diffVars, mirrorVars, offsiteVars, calcVars, preserveVars,
                   treeVars, filterVars, deliverVars>>

\* every commit action has run: Restore returns
RReturn ==
    /\ rPc = "commit"
    /\ rRan = Len(rActions)
    /\ rPc' = IF rDirResult # 0 THEN "failed" ELSE "done"
    /\ UNCHANGED <<rChain, rBefore, rOverwrite, rContinue, rDryRun, rCwd, rTarget,
                   rInstructions, rDir, rIdx, rDirResult, rActions, rRan, rProcessed>>
    /\ UNCHANGED <<diffVars, mirrorVars, offsiteVars, calcVars, preserveVars,
                   treeVars, filterVars, deliverVars>>

NextRestore == RStage \/ RInstruction \/ RTable \/ RCommit \/ RReturn

-----------------------------------------------------------------------------
(* SpecTree: AddFile and AddDir calls on one root node *)

\* the number of calls made on the root
MaxCalls == 3

\* the paths of the calls: a name, or a name below a name
TreePaths ==
    {<<n>> : n \in TopNames} \cup {<<n, i>> : n \in TopNames, i \in InnerNames}

NoCallYet == [op |-> "none", path |-> << >>, force |-> FALSE]

TreeIdle ==
    /\ tRoot = EmptyRoot
    /\ tCalls = MaxCalls
    /\ tRaised = FALSE
    /\ tLast = NoCallYet

\* root = Snapshot.Node(None, None, DirHashPlaceholder(explicitly_added=False), None)
TreeInit ==
    /\ tRoot = EmptyRoot
    /\ tCalls = 0
    /\ tRaised = FALSE
    /\ tLast = NoCallYet

\* root.AddFile(path, hash_value, file_size, force=force): when the
\* assertion of _AddImpl fails the call raises and the tree is as it was
\* (the parts of path.parent were all there)
TAddFile ==
    /\ tCalls < MaxCalls
    /\ ~tRaised
    /\ \E path \in TreePaths, c \in Contents, force \in BOOLEAN :
        LET r == AddFile(tRoot, path, HashOf(c), SizeOf(c), force)
        IN /\ tRoot' = IF r.ok THEN r.node ELSE tRoot
           /\ tRaised' = ~r.ok
           /\ tLast' = [op |-> "AddFile", path |-> path, force |-> force]
    /\ tCalls' = tCalls + 1
    /\ UNCHANGED <<diffVars, mirrorVars, offsiteVars, calcVars, preserveVars,
                   restoreVars, filterVars, deliverVars>>

\* root.AddDir(path, force=force)
TAddDir ==
    /\ tCalls < MaxCalls
    /\ ~tRaised
    /\ \E path \in TreePaths, force \in BOOLEAN :
        LET r == AddDir(tRoot, path, force)
        IN /\ tRoot' = IF r.ok THEN r.node ELSE tRoot
           /\ tRaised' = ~r.ok
           /\ tLast' = [op |-> "AddDir", path |-> path, force |-> force]
    /\ tCalls' = tCalls + 1
    /\ UNCHANGED <<diffVars, mirrorVars, offsiteVars, calcVars, preserveVars,
                   restoreVars, filterVars, deliverVars>>

NextTree == TAddFile \/ TAddDir

-----------------------------------------------------------------------------
(* SpecFilter: Common.CreateFilterFunc and the filter it returns *)

\* file_includes or file_excludes when it is None
NoList == [given |-> FALSE, patterns |-> {}]

\* a list of the patterns in S
PatternList(S) == [given |-> TRUE, patterns |-> S]

\* a list of patterns: None, or the patterns of a list (the empty list is
\* the default of --file-include and --file-exclude).  A pattern is a name
\* and is found in a path that has it as a component.
PatternLists == {NoList} \cup {PatternList(S) : S \in SUBSET TopNames}

\* not file_includes, not file_excludes: None and the empty list are falsy
Falsy(list) == ~list.given \/ list.patterns = {}

\* any(pattern.search(filename_str) for pattern in list)
AnySearch(list, path) == \E p \in list.patterns : p \in Range(path)

\* SnapshotFilter(filename)
SnapshotFilter(file_includes, file_excludes, path) ==
    IF file_excludes.given /\ AnySearch(file_excludes, path) THEN FALSE
    ELSE IF file_includes.given /\ ~AnySearch(file_includes, path) THEN FALSE
    ELSE TRUE

\* CreateFilterFunc(file_includes, file_excludes) asked about path: with no
\* filter (None is returned) every file is kept
CreateFilterFunc(file_includes, file_excludes, path) ==
    IF Falsy(file_includes) /\ Falsy(file_excludes) THEN TRUE
    ELSE SnapshotFilter(file_includes, file_excludes, path)

FilterIdle ==
    /\ fIncludes = NoList
    /\ fExcludes = NoList
    /\ fPath = InputDir
    /\ fResult = "idle"

\* the files of /s that a scan may ask about
FilterPaths == {InputDir \o p : p \in TreePaths}

FilterInit ==
    /\ fIncludes \in PatternLists
    /\ fExcludes \in PatternLists
    /\ fPath \in FilterPaths
    /\ fResult = "todo"

\* Snapshot.Calculate asks the filter about one file: "filter_filename_func
\* or (lambda value: True)" and "if not filter_filename_func(fullpath): continue"
FApply ==
    /\ fResult = "todo"
    /\ fResult' = IF CreateFilterFunc(fIncludes, fExcludes, fPath) THEN "kept"
                  ELSE "dropped"
    /\ UNCHANGED <<fIncludes, fExcludes, fPath>>
    /\ UNCHANGED <<diffVars, mirrorVars, offsiteVars, calcVars, preserveVars,
                   restoreVars, treeVars, deliverVars>>

NextFilter == FApply

-----------------------------------------------------------------------------
(* SpecDeliver: Offsite.Backup with a destination, one step at a time; a
   step ends with an error or without one; and the Backup calls after it *)

\* the number of Backup calls in one behaviour
MaxDeliveries == 2

\* the steps of a Backup that has found differences, in order:
\*   "size"      Common.ValidateSizeRequirements for the working directory
\*   "copy"      "Preserving files..."
\*   "package"   "Compressing..." / "Encrypting..." and "Validating archive..."
\*   "transfer"  _CommitFileBasedDataStore: the size check of the destination
\*               and "Transferring content to the destination..."
\*   "rename"    "Committing content on the destination..."
\*   "persist"   "Committing snapshot locally..."
\* "size" and "copy" are there when there is content to copy, "package"
\* when compress or encryption_password is given
StepsOf(diffs, offsite, compress) ==
    (IF BlobsOf(diffs, offsite) # {} THEN <<"size", "copy">> ELSE << >>)
        \o (IF compress THEN <<"package">> ELSE << >>)
        \o <<"transfer", "rename", "persist">>

\* a Backup that goes on after a step whatever its result is
ResultAllowsAlways(result) == TRUE

\* "if dm.result != 0: return" after a step (and prepare_dm, preserve_dm,
\* zip_dm, validate_dm, transfer_dm, commit_dm alike)
ResultAllows(result) == result = 0

NoPrevious ==
    [outcome |-> "none", local |-> EmptyRoot, force |-> FALSE,
     diffs |-> NoDiffs, start |-> NoFile]

DeliverIdle ==
    /\ bStandard = NoFile
    /\ bPc = "idle"
    /\ bLocal = EmptyRoot
    /\ bForce = FALSE
    /\ bCommit = TRUE
    /\ bCompress = FALSE
    /\ bDiffs = NoDiffs
    /\ bPrimary = FALSE
    /\ bResult = 0
    /\ bOffsite = << >>
    /\ bKept = 0
    /\ bStart = NoFile
    /\ bPrev = NoPrevious
    /\ bRuns = 0

\* there is no committed snapshot, or that of an earlier scan
DeliverInit ==
    /\ bStandard \in {NoFile} \cup {SnapshotFile(s) : s \in OffsiteScans}
    /\ bPc = "call"
    /\ bLocal = EmptyRoot
    /\ bForce = FALSE
    /\ bCommit = TRUE
    /\ bCompress = FALSE
    /\ bDiffs = NoDiffs
    /\ bPrimary = FALSE
    /\ bResult = 0
    /\ bOffsite = << >>
    /\ bKept = 0
    /\ bStart = bStandard
    /\ bPrev = NoPrevious
    /\ bRuns = 0

\* the offsite snapshot a Backup diffs against
Baseline(standard, force) ==
    IF force \/ ~standard.exists THEN EmptyRoot ELSE LoadPersisted(standard)

\* "if force or not snapshot_filenames.standard.is_file(): force = True" and
\* the name of file_content_root, "DELTA_SUFFIX if not force else ''"
IsPrimary(standard, force) == force \/ ~standard.exists

\* the step after cur, "return" after the last one
StepAfter(steps, cur) ==
    LET k == CHOOSE i \in DOMAIN steps : steps[i] = cur
    IN IF k = Len(steps) THEN "return" ELSE steps[k + 1]

\* Backup up to the diffs: the scan, the offsite snapshot, CalculateDiffs
\* and "if not any(...): return"
BCall ==
    /\ bPc = "call"
    /\ bRuns < MaxDeliveries
    /\ \E local \in OffsiteScans, force \in BOOLEAN, commit \in BOOLEAN,
          compress \in BOOLEAN :
        LET diffs == CalculateDiffs(local, Baseline(bStandard, force))
        IN /\ bLocal' = local
           /\ bForce' = force
           /\ bCommit' = commit
           /\ bCompress' = compress
           /\ bDiffs' = diffs
           /\ bPrimary' = IsPrimary(bStandard, force)
           /\ bPc' = IF ~AnyDiffs(diffs) THEN "nodiffs"
                     ELSE Head(StepsOf(diffs, Baseline(bStandard, force), compress))
    /\ bStart' = bStandard
    /\ bResult' = 0
    /\ bRuns' = bRuns + 1
    /\ UNCHANGED <<bStandard, bOffsite, bKept, bPrev>>
    /\ UNCHANGED <<diffVars, mirrorVars, offsiteVars, calcVars, preserveVars,
                   restoreVars, treeVars, filterVars>>

\* the directory of this run at the destination after a step: the transfer
\* writes it under temporary names, all of it or, on an error, a part; the
\* renames give it its names, all of them or, on an error, a part
OffsiteAfter(offsite, step, ok) ==
    IF step = "transfer" THEN Append(offsite, IF ok THEN "transferred" ELSE "partial")
    ELSE IF step = "rename"
    THEN [offsite EXCEPT ![Len(offsite)] = IF ok THEN "complete" ELSE "partial"]
    ELSE offsite

\* one step before the snapshot is persisted, ending with or without an
\* error; OnExit keeps the working directory when the result is not 0
BStepAt(step) ==
    /\ bPc = step
    /\ \E ok \in BOOLEAN :
        LET result == IF ok THEN bResult ELSE -1
            steps == StepsOf(bDiffs, Baseline(bStart, bForce), bCompress)
        IN /\ bResult' = result
           /\ bOffsite' = OffsiteAfter(bOffsite, step, ok)
           /\ bPc' = IF ResultAllows(result) THEN StepAfter(steps, step) ELSE "failed"
           /\ bKept' = IF ResultAllows(result) THEN bKept ELSE bKept + 1
    /\ UNCHANGED <<bStandard, bLocal, bForce, bCommit, bCompress, bDiffs, bPrimary,
                   bStart, bPrev, bRuns>>
    /\ UNCHANGED <<diffVars, mirrorVars, offsiteVars, calcVars, preserveVars,
                   restoreVars, treeVars, filterVars>>

BSize == BStepAt("size")

BCopy == BStepAt("copy")

BPackage == BStepAt("package")

BTransfer == BStepAt("transfer")

BRename == BStepAt("rename")

\* "if commit_pending_snapshot: ... local_snapshot.Persist(...)", and the
\* return of Backup
BPersist ==
    /\ bPc = "persist"
    /\ bStandard' = StandardAfterCommit(bStandard, bLocal, bCommit)
    /\ bPc' = IF bResult = 0 THEN "done" ELSE "failed"
    /\ UNCHANGED <<bLocal, bForce, bCommit, bCompress, bDiffs, bPrimary, bResult,
                   bOffsite, bKept, bStart, bPrev, bRuns>>
    /\ UNCHANGED <<diffVars, mirrorVars, offsiteVars, calcVars, preserveVars,
                   restoreVars, treeVars, filterVars>>

\* Backup has returned and is called again
BAgain ==
    /\ bPc \in {"nodiffs", "done", "failed"}
    /\ bRuns < MaxDeliveries
    /\ bPrev' = [outcome |-> bPc, local |-> bLocal, force |-> bForce,
                 diffs |-> bDiffs, start |-> bStart]
    /\ bPc' = "call"
    /\ UNCHANGED <<bStandard, bLocal, bForce, bCommit, bCompress, bDiffs, bPrimary,
                   bResult, bOffsite, bKept, bStart, bRuns>>
    /\ UNCHANGED <<diffVars, mirrorVars, offsiteVars, calcVars, preserveVars,
                   restoreVars, treeVars, filterVars>>

NextDeliver ==
    BCall \/ BSize \/ BCopy \/ BPackage \/ BTransfer \/ BRename \/ BPersist \/ BAgain

-----------------------------------------------------------------------------
(* The specifications: each runs one subsystem and holds the others idle *)

vars == <<diffVars, mirrorVars, offsiteVars, calcVars, preserveVars, restoreVars,
          treeVars, filterVars, deliverVars>>

InitSpecDiff ==
    InitDiff /\ MirrorIdle /\ OffsiteIdle /\ CalcIdle /\ PreserveIdle /\ RestoreIdle
        /\ TreeIdle /\ FilterIdle /\ DeliverIdle

SpecDiff == InitSpecDiff /\ [][NextDiff]_vars

InitSpecMirror ==
    MirrorInit /\ DiffIdle /\ OffsiteIdle /\ CalcIdle /\ PreserveIdle /\ RestoreIdle
        /\ TreeIdle /\ FilterIdle /\ DeliverIdle

SpecMirror == InitSpecMirror /\ [][NextMirror]_vars

InitSpecOffsite ==
    OffsiteInit /\ DiffIdle /\ MirrorIdle /\ CalcIdle /\ PreserveIdle /\ RestoreIdle
        /\ TreeIdle /\ FilterIdle /\ DeliverIdle

SpecOffsite == InitSpecOffsite /\ [][NextOffsite]_vars


InitSpecCalculate ==
    CalcInit /\ DiffIdle /\ MirrorIdle /\ OffsiteIdle /\ PreserveIdle /\ RestoreIdle
        /\ TreeIdle /\ FilterIdle /\ DeliverIdle

SpecCalculate == InitSpecCalculate /\ [][NextCalc]_vars

InitSpecPreserve ==
    PreserveInit /\ DiffIdle /\ MirrorIdle /\ OffsiteIdle /\ CalcIdle /\ RestoreIdle
        /\ TreeIdle /\ FilterIdle /\ DeliverIdle

SpecPreserve == InitSpecPreserve /\ [][NextPreserve]_vars

InitSpecRestore ==
    RestoreInit /\ DiffIdle /\ MirrorIdle /\ OffsiteIdle /\ CalcIdle /\ PreserveIdle
        /\ TreeIdle /\ FilterIdle /\ DeliverIdle

SpecRestore == InitSpecRestore /\ [][NextRestore]_vars

InitSpecTree ==
    TreeInit /\ DiffIdle /\ MirrorIdle /\ OffsiteIdle /\ CalcIdle /\ PreserveIdle
        /\ RestoreIdle /\ FilterIdle /\ DeliverIdle

SpecTree == InitSpecTree /\ [][NextTree]_vars

InitSpecFilter ==
    FilterInit /\ DiffIdle /\ MirrorIdle /\ OffsiteIdle /\ CalcIdle /\ PreserveIdle
        /\ RestoreIdle /\ TreeIdle /\ DeliverIdle

SpecFilter == InitSpecFilter /\ [][NextFilter]_vars

InitSpecDeliver ==
    DeliverInit /\ DiffIdle /\ MirrorIdle /\ OffsiteIdle /\ CalcIdle /\ PreserveIdle
        /\ RestoreIdle /\ TreeIdle /\ FilterIdle

SpecDeliver == InitSpecDeliver /\ [][NextDeliver]_vars
-----------------------------------------------------------------------------
(* Claims about Diff *)

\* C4: applying diff(a, b) with a faithful applicator to the tree of b (the
\* other side) yields a tree equal to a.
C4_DiffReconstructs ==
    (dDone /\ ~dRaised /\ dCompareHashes) => ApplyDiffs(Flat(dOther), dDiffs) = Flat(dThis)

IsAncestorOfSome(path, paths) == \E q \in paths : IsProperPrefix(path, q)

PathsWith(diffs, op) == {diffs[i].path : i \in {j \in DOMAIN diffs : diffs[j].operation = op}}

\* C17: every DiffResult of Diff, in either compare mode, is well-formed: an
\* add has this-side values and no other-side values, a remove the reverse,
\* and a modify is of two files whose recorded hashes differ
C17_DiffResultsWellFormed ==
    (dDone /\ ~dRaised) =>
        \A i \in DOMAIN dDiffs :
            LET d == dDiffs[i]
            IN /\ d.operation \in {"add", "remove", "modify"}
               /\ d.operation = "add" =>
                    /\ d.this_hash # None
                    /\ d.other_hash = None /\ d.other_file_size = None
                    /\ (d.this_file_size = None) <=> (d.this_hash = DirHashPlaceholder)
               /\ d.operation = "remove" =>
                    /\ d.other_hash # None
                    /\ d.this_hash = None /\ d.this_file_size = None
                    /\ (d.other_file_size = None) <=> (d.other_hash = DirHashPlaceholder)
               /\ d.operation = "modify" =>
                    /\ IsFileHash(d.this_hash) /\ IsFileHash(d.other_hash)
                    /\ d.this_file_size # None /\ d.other_file_size # None
                    /\ d.this_hash # d.other_hash

C17_Witness ==
    /\ dDone
    /\ ~dCompareHashes
    /\ PathsWith(dDiffs, "add") # {}
    /\ PathsWith(dDiffs, "remove") # {}
    /\ PathsWith(dDiffs, "modify") # {}

\* C18: no add path of a Diff result has a proper ancestor that is an add
\* path too, and no remove path a proper ancestor that is a remove path too
C18_NoNestedAddsOrRemoves ==
    (dDone /\ ~dRaised) =>
        /\ \A p \in PathsWith(dDiffs, "add") :
                ~IsAncestorOfSome(p, PathsWith(dDiffs, "add"))
        /\ \A p \in PathsWith(dDiffs, "remove") :
                ~IsAncestorOfSome(p, PathsWith(dDiffs, "remove"))

C18_Witness ==
    /\ dDone
    /\ \E p \in PathsWith(dDiffs, "add") : Len(p) = 2
    /\ \E p \in PathsWith(dDiffs, "remove") :
            /\ Len(p) = 1
            /\ GetChild(dOther, p[1]).children # << >>

\* the node of a snapshot at a path, NoNode where there is none
RECURSIVE NodeAt(_, _)
NodeAt(node, path) ==
    IF path = << >> THEN node
    ELSE NodeAt(GetChild(node, Head(path)), Tail(path))

\* C24: Diff reports a remove of a directory D that both snapshots hold as a
\* directory only when D has no child left in this snapshot and neither
\* side's D is explicitly added
C24_CollapseOnlyWhenAllVanished ==
    (dDone /\ ~dRaised) =>
        \A i \in DOMAIN dDiffs :
            LET d == dDiffs[i]
                mine == NodeAt(dThis, d.path)
                theirs == NodeAt(dOther, d.path)
            IN (d.operation = "remove" /\ mine.kind = "dir" /\ theirs.kind = "dir")
                    => /\ mine.children = << >>
                       /\ ~mine.explicit
                       /\ ~theirs.explicit

\* C19: the diff of a snapshot with itself is empty, in either compare mode
C19_DiffWithItselfEmpty ==
    (dDone /\ dThis = dOther) => (~dRaised /\ dDiffs = << >>)

C19_Witness ==
    /\ dDone
    /\ dThis = dOther
    /\ ~dCompareHashes
    /\ \E c \in Range(dThis.children) :
            /\ c.node.explicit
            /\ c.node.children # << >>
    /\ \E c \in Range(dThis.children) : c.node.kind = "dir" /\ c.node.children = << >>

\* C20: a snapshot persisted and loaded again equals the snapshot (kinds,
\* hashes, sizes and children; explicitly_added is not compared)
C20_JsonRoundTrip ==
    dLoaded # NoNode => NodeEq(dLoaded, dOther)

C20_Witness ==
    /\ dLoaded # NoNode
    /\ dOther.explicit
    /\ \E c \in Range(dOther.children) :
            /\ c.node.explicit
            /\ \E g \in Range(c.node.children) : g.node.kind = "file"
    /\ \E c \in Range(dOther.children) :
            c.node.kind = "dir" /\ ~c.node.explicit /\ c.node.children = << >>

-----------------------------------------------------------------------------
(* Claims about the mirror *)

\* the content tree a completed Backup of the current source would leave
PostState == ContentTree(CopyOf(mSrc, Calculate(mSrc, mExcludes)))

\* the files of a tree, its directories left aside
FilesOf(fs) == {e \in fs : e.val # IsDirVal}

\* C1: a Backup killed at any point, then Cleanup run to completion: the
\* files under Content are those before the Backup began or those a
\* completed Backup would have produced, never some of each.
C1_KillCleanupAtomic ==
    (mPc = "idle" /\ mOutcome = "killed")
        => \/ FilesOf(ContentTree(mFs)) = FilesOf(ContentTree(mPre))
           \/ FilesOf(ContentTree(mFs)) = FilesOf(PostState)

\* the run began on a committed destination state: nothing at all, or the
\* content tree of the committed snapshot
StartedCommitted ==
    IF mPreSnapshot.exists
    THEN Hashed(mPre) = MirrorOf(LoadPersisted(mPreSnapshot))
    ELSE mPre = {}

\* C2: from a committed destination state, a Backup that completes without error leaves under Content exactly
\* the files and directories of the source (same flattened paths, same
\* bytes), and BackupSnapshot.json loads to a snapshot equal to Calculate of
\* the source.
C2_BackupMirrorsSource ==
    (mPc = "done" /\ StartedCommitted)
        => /\ mFs = CopyOf(mSrc, Calculate(mSrc, mExcludes))
           /\ mSnapshot.exists
           /\ NodeEq(LoadPersisted(mSnapshot), Calculate(mSrc, mExcludes))

\* a completed Backup that had something to remove, to add and to modify
C2_Witness ==
    /\ mPc = "done"
    /\ mDiffs.remove # << >>
    /\ mDiffs.add # << >>
    /\ mDiffs.modify # << >>
    /\ mPreSnapshot.exists

\* the order of the phases
PhaseOrder == <<"mark", "copy", "commit", "purge", "snapshot">>

PhaseRank(p) == CHOOSE i \in DOMAIN PhaseOrder : PhaseOrder[i] = p

\* C5: the phases of a run are entered in the order mark, copy, commit,
\* purge, snapshot, and every task that is waiting or that a worker is in
\* belongs to the phase entered last: no phase begins while a task of an
\* earlier phase is unfinished.
C5_PhasesSequential ==
    /\ \A i, j \in DOMAIN mPhases :
            i < j => PhaseRank(mPhases[i]) < PhaseRank(mPhases[j])
    /\ \A t \in mTodo \cup {r.task : r \in mRunning} :
            mPhases # << >> /\ t.phase = mPhases[Len(mPhases)]
    /\ mPc \in {"snapshot", "unlinked", "done"}
            => (mPhases # << >> /\ mPhases[Len(mPhases)] = "snapshot")

\* two workers inside the commit phase at once, after a mark and a copy phase
C5_Witness ==
    /\ Cardinality(mRunning) = 2
    /\ mPhases = <<"mark", "copy", "commit">>

\* what Cleanup is to make of a destination tree: entries with a pending
\* commit name are gone, entries with a pending delete name are back under
\* their name without it, in place of what was there, and the rest is as
\* it was
HasExt(path, exts) == \E i \in DOMAIN path : path[i].ext \in exts

Stripped(path) == [i \in DOMAIN path |-> DestName(path[i].base, "")]

PendingDeleteName(path) ==
    Append(Parent(path), DestName(Last(path).base, PENDING_DELETE_EXTENSION))

Replaced(fs, path) ==
    \E k \in 1..Len(path) : GetItemType(fs, PendingDeleteName(SubSeq(path, 1, k))) # "none"

CleanupExpected(fs) ==
    {e \in fs : ~HasExt(e.path, {"pd", "pc", "tpc"}) /\ ~Replaced(fs, e.path)}
        \cup {Entry(Stripped(e.path), e.val) :
                e \in {x \in fs : HasExt(x.path, {"pd"}) /\ ~HasExt(x.path, {"pc", "tpc"})}}

\* C6: Cleanup deletes every entry under Content whose name ends in the
\* pending commit extension, renames every entry whose name ends in the
\* pending delete extension back to its name without it (replacing what is
\* at that name) and leaves every other entry untouched.
C6_CleanupReverts ==
    (mClean.ran /\ GetItemType(mClean.fs, CONTENT_DIR_NAME) = "dir")
        => mFs = CleanupExpected(mClean.fs)

\* a Cleanup that found a pending commit entry, a pending delete entry whose
\* original name was taken again, and an entry with neither
C6_Witness ==
    /\ mClean.ran
    /\ \E e \in mClean.fs : Last(e.path).ext = "pc"
    /\ \E e \in mClean.fs :
            /\ Last(e.path).ext = "pd"
            /\ GetItemType(mClean.fs, Stripped(e.path)) # "none"
    /\ \E e \in mClean.fs :
            /\ Len(e.path) = 3
            /\ ~HasExt(e.path, {"pd", "pc", "tpc"})
            /\ ~Replaced(mClean.fs, e.path)
            /\ e \in mFs

\* C7: a staged snapshot file at the destination root is neither deleted nor
\* renamed by Cleanup.
C7_CleanupKeepsStagedSnapshot ==
    (mClean.ran /\ mClean.pending.exists) => mPendingSnapshot = mClean.pending


\* C14 as stated: with bytes_available known, Backup passes the size gate
\* exactly when the bytes required are at most 0.85 of the bytes available
\* (17/20), equality included, and is rejected exactly when they are more
C14_SizeGateAtMost ==
    (mCall.reason \in {"none", "space"} /\ mCall.available # None)
        => ((mCall.reason = "none") <=> (20 * mCall.required <= 17 * mCall.available))

\* the destination is as the call found it
DestinationAsFound ==
    /\ mFs = mPre
    /\ mSnapshot = mPreSnapshot
    /\ mPendingSnapshot = mCall.pending
    /\ mTempSnapshot = mCall.temp

\* C15: a Backup that is rejected (an input that does not exist, inputs
\* that overlap, a destination that is not file-based, more bytes required
\* than 0.85 of the bytes available) returns with the destination as it
\* found it, and a call with more bytes required than that is rejected
C15_RejectedLeavesDestination ==
    /\ mPc = "rejected" => DestinationAsFound
    /\ (mCall.available # None /\ 20 * mCall.required > 17 * mCall.available)
            => mPc = "rejected"

C15_Witness ==
    /\ mPc = "rejected"
    /\ mCall.reason = "space"
    /\ mCall.available = 40
    /\ mDiffs.modify # << >>
    /\ mPreSnapshot.exists
    /\ DestinationAsFound

\* Backup is run again on the destination of a completed Backup of the
\* same source
RerunUnchanged ==
    /\ mRuns > 0
    /\ mPc \notin {"idle", "rejected", "killed"}
    /\ ~mForce
    /\ mPreSnapshot = SnapshotFile(Calculate(mSrc, mExcludes))
    /\ mPre = CopyOf(mSrc, Calculate(mSrc, mExcludes))

\* C16: Backup run again with the source unchanged computes no diffs and
\* writes, renames and deletes nothing at the destination:
\* BackupSnapshot.json and everything else is as it was, at every step
C16_RerunIssuesNoWrites ==
    RerunUnchanged
        => /\ mDiffs = NoDiffs
           /\ mFs = mPre
           /\ mSnapshot = mPreSnapshot
           /\ mPendingSnapshot = NoFile
           /\ mTempSnapshot = NoFile


-----------------------------------------------------------------------------
(* Offsite claims *)

\* a chain: the primary first and no other, every directory's snapshot
\* committed before the next Backup
IsChain(dirs) ==
    /\ dirs # << >>
    /\ PrimaryIndexes(dirs) = {1}
    /\ \A i \in DOMAIN dirs : dirs[i].committed

BelowRoot(fs) == {e \in fs : Len(e.path) > 1}

\* the tree a snapshot describes, at the place the substitution map puts it
TreeOf(root) ==
    {Entry(PathToFilename(e.path),
           IF e.node.kind = "file" THEN e.node.hash ELSE IsDirVal) :
        e \in {x \in Enum(root) : Len(x.path) > 1}}

\* C3: restoring a chain (one primary, then deltas) into an empty target
\* yields the tree of the chain's last backup: the same files with the same
\* bytes and the same empty directories, at the substituted paths.  The
\* prefixes of a chain are the chains of the earlier states.
C3_RestoreYieldsTree ==
    (oRestore.count = 1 /\ ~oRestore.dry_run /\ oRestore.before = {}
            /\ oRestore.listed = DOMAIN oChain
            /\ IsChain(oChain))
        => BelowRoot(oTarget) = TreeOf(oChain[Len(oChain)].tree)

\* C8: in a chain built without force no hash names a content file in two
\* of its directories
C8_NoHashStoredTwice ==
    IsChain(oChain)
        => \A i, j \in DOMAIN oChain : i < j => oChain[i].blobs \cap oChain[j].blobs = {}

\* C9: Backup goes past its check of the pending snapshot exactly when the
\* pending snapshot exists and ignore_pending_snapshot is set, or neither;
\* otherwise it fails, no directory is made and both snapshot files are as
\* they were
C9_PendingPrecondition ==
    oLast.op = "backup"
        => /\ (oLast.outcome # "error") <=> (oLast.pending.exists <=> oLast.ignore)
           /\ oLast.outcome = "error"
                => /\ oStandard = oLast.standard
                   /\ oPending = oLast.pending
                   /\ Len(oChain) = oLast.chain
                   /\ Len(oStaged) = oLast.staged

C9_Witness ==
    /\ oLast.op = "backup"
    /\ oLast.outcome = "error"
    /\ oLast.ignore
    /\ ~oLast.pending.exists
    /\ oStandard.exists
    /\ oChain # << >>

\* C10 as stated: a Backup that wrote a directory has written one snapshot
\* file: with no destination the pending one, the committed one being as it
\* was; with a destination the committed one, now the local snapshot, and no
\* pending one is left
C10_OneSnapshotWritten ==
    (oLast.op = "backup" /\ oLast.outcome = "done")
        => IF oLast.destination = "none"
           THEN oPending = oLast.local /\ oStandard = oLast.standard
           ELSE oPending = NoFile /\ oStandard = oLast.local

\* C10: the same, the committed file being written with a destination only
\* when commit_pending_snapshot is set; it is as it was otherwise
C10_OneSnapshotWrittenIfCommit ==
    (oLast.op = "backup" /\ oLast.outcome = "done")
        => IF oLast.destination = "none"
           THEN oPending = oLast.local /\ oStandard = oLast.standard
           ELSE /\ oPending = NoFile
                /\ oStandard = IF oLast.commit THEN oLast.local ELSE oLast.standard

C10_Witness ==
    /\ oLast.op = "backup"
    /\ oLast.outcome = "done"
    /\ oLast.destination = "file"
    /\ oLast.commit
    /\ oLast.standard.exists
    /\ oLast.standard # oLast.local
    /\ oStandard = oLast.local


\* C11: Commit with a pending snapshot ends with the committed snapshot file
\* holding the former pending content and with no pending file; without a
\* pending snapshot it fails and changes neither file
C11_CommitMovesPending ==
    oLast.op = "commit" =>
        IF oLast.pending.exists
        THEN /\ oLast.outcome = "done"
             /\ oStandard = oLast.pending
             /\ oPending = NoFile
        ELSE /\ oLast.outcome = "error"
             /\ oStandard = oLast.standard
             /\ oPending = oLast.pending

C11_Witness ==
    /\ oLast.op = "commit"
    /\ oLast.outcome = "done"
    /\ oLast.standard.exists
    /\ oLast.standard # oLast.pending
    /\ oStandard = oLast.pending

\* the listed directories that are primaries
ListedPrimaries == {i \in oRestore.listed : oChain[i].primary}

\* C12: Restore fails and leaves the target as it was unless exactly one of
\* the listed directories is a primary; with exactly one it replays that
\* primary and then every listed directory that sorts after it, in order,
\* and none that sorts before it
C12_RestoreReplaysFromPrimary ==
    oRestore.count > 0 =>
        IF Cardinality(ListedPrimaries) # 1
        THEN oRestore.result = "error" /\ oTarget = oRestore.before
        ELSE /\ oRestore.result # "error"
             /\ Range(oRestore.replayed)
                    = {i \in oRestore.listed : \A p \in ListedPrimaries : i >= p}
             /\ \A j, k \in DOMAIN oRestore.replayed :
                    j < k => oRestore.replayed[j] < oRestore.replayed[k]
             /\ oChain[oRestore.replayed[1]].primary

C12_Witness ==
    /\ oRestore.count > 0
    /\ oRestore.result = "done"
    /\ \E i \in oRestore.listed : i < oRestore.replayed[1]
    /\ oTarget # oRestore.before

\* the instructions Restore read from the directories it replayed
RestoreRead ==
    ReadDirectories([k \in DOMAIN oRestore.replayed |-> oChain[oRestore.replayed[k]]],
                    {}, << >>)

OriginBefore(o, p) == o[1] < p[1] \/ (o[1] = p[1] /\ o[2] < p[2])

\* the instruction was processed: no earlier one had reported an error
Processed(origin) ==
    oRestore.failed = NoOrigin \/ ~OriginBefore(oRestore.failed, origin)

\* C13: without overwrite, an add instruction that Restore processes and
\* whose local path exists reports an error and queues no commit action
C13_AddOnExistingNotQueued ==
    (oRestore.count > 0 /\ ~oRestore.dry_run /\ ~oRestore.overwrite
            /\ oRestore.result # "error" /\ ~RestoreRead.raised)
        => \A d \in DOMAIN RestoreRead.instructions :
            \A k \in DOMAIN RestoreRead.instructions[d] :
                LET i == RestoreRead.instructions[d][k]
                IN (/\ i.operation = "add"
                    /\ GetItemType(oRestore.before, i.local_filename) # "none"
                    /\ Processed(i.origin))
                    => /\ oRestore.failed = i.origin
                       /\ \A a \in DOMAIN oRestore.actions :
                            oRestore.actions[a].origin # i.origin

C13_Witness ==
    /\ oRestore.count > 0
    /\ ~oRestore.overwrite
    /\ oRestore.failed # NoOrigin
    /\ oRestore.failed[1] > 1
    /\ oRestore.actions # << >>
    /\ LET i == RestoreRead.instructions[oRestore.failed[1]][oRestore.failed[2]]
       IN /\ i.operation = "add"
          /\ i.file_content # None
          /\ GetItemType(oRestore.before, i.local_filename) = "dir"
          /\ GetItemType(oTarget, i.local_filename) = "dir"

\* C21: a Backup whose diffs are all empty makes no directory, in the
\* working directory or at the destination, and leaves the committed
\* snapshot as it was: no directory has an empty index
C21_NoDiffsNoDirectory ==
    /\ (oLast.op = "backup" /\ oLast.outcome = "nodiffs")
            => /\ Len(oChain) = oLast.chain
               /\ Len(oStaged) <= oLast.staged
               /\ oStandard = oLast.standard
    /\ \A i \in DOMAIN oChain : oChain[i].index # << >>
    /\ \A i \in DOMAIN oStaged : oStaged[i].index # << >>

C21_Witness ==
    /\ oLast.op = "backup"
    /\ oLast.outcome = "nodiffs"
    /\ oLast.standard.exists
    /\ oLast.local = oLast.standard
    /\ oLast.local # SnapshotFile(EmptyRoot)
    /\ Len(oChain) = 2
    /\ oStandard = oLast.standard

\* C22: with dry_run, Restore queues and runs no commit action and leaves
\* the target as it was, whatever the directories and overwrite
C22_DryRunLeavesTarget ==
    (oRestore.count > 0 /\ oRestore.dry_run)
        => /\ oRestore.actions = << >>
           /\ oRestore.failed = NoOrigin
           /\ oTarget = oRestore.before

C22_Witness ==
    /\ oRestore.count > 0
    /\ oRestore.dry_run
    /\ oRestore.overwrite
    /\ oRestore.result = "done"
    /\ Len(oRestore.replayed) = 2
    /\ oRestore.before # {}
    /\ oTarget = oRestore.before
    /\ BelowRoot(oTarget) # TreeOf(oChain[Len(oChain)].tree)

\* C27: when an instruction of Restore reports an error (continue_on_errors
\* is not set), no commit action runs and the target is as it was before
\* the Restore
C27_FailedRestoreLeavesTarget ==
    (oRestore.count > 0 /\ oRestore.failed # NoOrigin) => oTarget = oRestore.before

\* C28: at every point of Commit, a kill between its steps included, a
\* committed snapshot file that was there before the call is there, with
\* the content it had or with that of the pending snapshot
C28_CommitKeepsCommitted ==
    (oLast.op \in {"commit", "commitkill"} /\ oLast.standard.exists)
        => /\ oStandard.exists
           /\ oStandard \in {oLast.standard, oLast.pending}

\* a step at which a Backup stops: it returns with an error or raises, at its
\* entry or after a phase, or the process is killed
BackupStops ==
    /\ mPc' \in {"failed", "rejected", "killed"}
    /\ mPc' # mPc \/ mRuns' # mRuns

\* C25: a mirror Backup that stops, killed or with an error, before the
\* Rename of "Committing snapshot data..." has begun leaves in
\* BackupSnapshot.json the snapshot that was committed before the run began
C25_StoppedRunKeepsCommitted ==
    [][(BackupStops /\ mPc # "unlinked") => mSnapshot' = mPreSnapshot']_vars

C25_Witness ==
    /\ mPc = "killed"
    /\ mPreSnapshot.exists
    /\ mSnapshot = mPreSnapshot
    /\ mPendingSnapshot.exists
    /\ mPendingSnapshot # mSnapshot
    /\ \E e \in mFs : HasExt(e.path, {"pc"})
    /\ \E e \in mFs : HasExt(e.path, {"pd"})

\* C29: after a Backup that was killed and a Cleanup that completed, no file
\* or directory under Content has a pending commit, pending delete or temp
\* name
C29_NoMarkersAfterCleanup ==
    (mPc = "idle" /\ mOutcome = "killed" /\ mClean.ran)
        => \A e \in ContentTree(mFs) : ~HasExt(<<Last(e.path)>>, {"pd", "pc", "tpc"})

C29_Witness ==
    /\ mPc = "idle"
    /\ mOutcome = "killed"
    /\ mClean.ran
    /\ \E e \in ContentTree(mClean.fs) : Last(e.path).ext = "tpc" /\ Len(e.path) > 3
    /\ \E e \in ContentTree(mClean.fs) : Last(e.path).ext = "pd"
    /\ \E e \in ContentTree(mClean.fs) : Last(e.path).ext = "pc"
    /\ ContentTree(mFs) # {}

\* C26: after a Backup that was killed, Backup run again with the same
\* source returns without error, and then Content holds the files and
\* directories of the source and BackupSnapshot.json the snapshot of the
\* source
C26_RerunAfterKillCompletes ==
    (mPc \in {"redone", "refailed"})
        => /\ mPc = "redone"
           /\ mFs = CopyOf(mSrc, Calculate(mSrc, mExcludes))
           /\ mSnapshot.exists
           /\ NodeEq(LoadPersisted(mSnapshot), Calculate(mSrc, mExcludes))

\* Backup of the same source, not killed, returns without error
UninterruptedCompletes ==
    BackupRun(mPre, mPreSnapshot, NoFile, NoFile, mSrc, mExcludes, mForce).result = 0

\* the same with that condition: a Backup that can complete when it is not
\* killed completes when it is run again after a kill
RerunRecoversWhenBackupCan ==
    (mPc \in {"redone", "refailed"} /\ UninterruptedCompletes)
        => /\ mPc = "redone"
           /\ mFs = CopyOf(mSrc, Calculate(mSrc, mExcludes))
           /\ mSnapshot.exists
           /\ NodeEq(LoadPersisted(mSnapshot), Calculate(mSrc, mExcludes))

-----------------------------------------------------------------------------
(* Claims about the tasks of Calculate and of the offsite Backup *)

\* the files of a snapshot: path, hash and size
SnapshotFiles(root) ==
    {[path |-> e.path, hash |-> e.node.hash, size |-> e.node.size] :
        e \in {x \in Enum(root) : x.node.kind = "file"}}

\* C23: when a discovered file is deleted before its hashing task has ended,
\* Calculate returns a snapshot, which holds every other discovered file
\* with its hash and size and not the deleted one
C23_DeletedFileSkipped ==
    (cPc \in {"done", "raised"} /\ cDeleted # {})
        => /\ cPc = "done"
           /\ SnapshotFiles(cSnapshot)
                = {[path |-> p,
                    hash |-> IF cCalculateHashes THEN HashOf(ValAt(cStart, p))
                             ELSE NotCalculated,
                    size |-> SizeOf(ValAt(cStart, p))] :
                        p \in Range(cFilenames) \ cDeleted}

\* C30: in one offsite Backup no two copy tasks write the content of the
\* same hash
C30_HashCopiedOnce ==
    \A x, y \in pCopied : x.hash = y.hash => x.task = y.task

C30_Witness ==
    /\ pPc = "done"
    /\ \E i, j \in DOMAIN pDiffs :
        /\ i # j
        /\ pDiffs[i].this_hash = pDiffs[j].this_hash
        /\ GetItemType(pSrc, pDiffs[i].path) = "file"
        /\ GetItemType(pSrc, pDiffs[j].path) = "file"
        /\ pDiffs[i].this_hash \notin FileHashes(pOffsite)
        /\ \E x \in pCopied : x.hash = pDiffs[i].this_hash
        /\ ContentName(pDiffs[i].this_hash, FALSE) \in pStore

\* the origins of the instructions Restore built, all directories together
AllOrigins ==
    UNION {{rInstructions[d][k].origin : k \in DOMAIN rInstructions[d]} :
            d \in DOMAIN rInstructions}

\* C31: Restore changes nothing in the target until every instruction of
\* every replayed directory has been staged; a change of the target is the
\* run of the next commit action, and the commit actions are queued in the
\* order of their instructions (directory, then place in the directory)
C31_StageAllThenCommitInOrder ==
    [][(rTarget' # rTarget)
        => /\ rProcessed = AllOrigins
           /\ rPc = "commit"
           /\ rRan' = rRan + 1
           /\ \A j, k \in DOMAIN rActions :
                j < k => OriginBefore(rActions[j].origin, rActions[k].origin)]_vars

\* C32: with overwrite not set, whatever was in the target before the
\* Restore is there at every point of it, as it was
C32_NoOverwriteKeepsExisting ==
    ~rOverwrite => \A e \in rBefore : e \in rTarget

\* the root and every node below it
AllNodes(root) == {root} \cup {e.node : e \in Enum(root)}

\* C33: after AddFile and AddDir calls that all returned, no file node has
\* children, and the children of a node have pairwise different names (a
\* child is held under the name it was made with, inside its parent)
C33_AddKeepsNodeInvariants ==
    ~tRaised =>
        \A n \in AllNodes(tRoot) :
            /\ n.kind = "file" => n.children = << >>
            /\ \A j, k \in DOMAIN n.children :
                    n.children[j].name = n.children[k].name => j = k

\* C40: a path is kept exactly when no exclude pattern is found in it and
\* the include list is None, or empty, or has a pattern found in it
C40_FilterKeepsExactly ==
    fResult \in {"kept", "dropped"} =>
        (fResult = "kept"
            <=> /\ ~\E p \in fExcludes.patterns : p \in Range(fPath)
                /\ \/ ~fIncludes.given
                   \/ fIncludes.patterns = {}
                   \/ \E p \in fIncludes.patterns : p \in Range(fPath))

\* C34: no DiffResult of Diff has the path of the root, the path with no
\* component
C34_NoDiffOfRoot ==
    dDone => \A i \in DOMAIN dDiffs : dDiffs[i].path # << >>

\* the destination entries the tasks of a phase work on, one per diff, in
\* the order of the diffs
DestinationEntries(diffs) ==
    [i \in DOMAIN diffs |-> CreateDestinationPath(diffs[i].path, "")]

\* no two of the entries are the same and none is inside another
PairwiseApart(entries) ==
    \A i, j \in DOMAIN entries : i # j => ~IsPrefix(entries[i], entries[j])

\* C35: in a mirror Backup the diffs that are marked for deletion (remove and
\* modify) name destination entries that are pairwise different and not
\* nested, and so do the diffs that are copied (add and modify)
C35_PhaseEntriesApart ==
    /\ PairwiseApart(DestinationEntries(mDiffs.remove \o mDiffs.modify))
    /\ PairwiseApart(DestinationEntries(mDiffs.add \o mDiffs.modify))

C35_Witness ==
    /\ mPc = "copy"
    /\ Cardinality(mRunning) = 2
    /\ \A t \in mRunning : t.task.phase = "copy"
    /\ mDiffs.add # << >>
    /\ mDiffs.modify # << >>
    /\ mDiffs.remove # << >>
    /\ \E i \in DOMAIN mDiffs.add : Len(mDiffs.add[i].path) = 4

\* C36: an offsite Backup to a destination that ends with a result other
\* than 0 leaves the committed snapshot file as it was, and the next Backup
\* of the same scan with the same force finds the differences the failed one
\* had found
C36_FailedBackupKeepsBaseline ==
    /\ bPc = "failed" => bStandard = bStart
    /\ (bPrev.outcome = "failed" /\ bPc \notin {"call", "idle"}
            /\ bLocal = bPrev.local /\ bForce = bPrev.force)
        => /\ bDiffs = bPrev.diffs
           /\ AnyDiffs(bDiffs)

C36_Witness ==
    /\ bPrev.outcome = "failed"
    /\ bPrev.start.exists
    /\ bOffsite = <<"partial", "complete">>
    /\ bPc = "done"
    /\ bLocal = bPrev.local
    /\ ~bForce /\ ~bPrev.force
    /\ bDiffs.modify # << >>
    /\ bStandard # bStart
    /\ bKept = 1

\* the records of the index files of the directories Restore replayed, in
\* the order Restore reads them
RECURSIVE ReplayedRecords(_)
ReplayedRecords(replayed) ==
    IF replayed = << >> THEN << >>
    ELSE oChain[Head(replayed)].index \o ReplayedRecords(Tail(replayed))

\* a record that names an original file (a modify, or a remove with
\* other_hash) whose hash no earlier add or modify record brought in
NamesUnknownOriginal(records, k) ==
    /\ \/ records[k].operation = "modify"
       \/ records[k].operation = "remove" /\ records[k].other_hash # None
    /\ ~\E j \in 1..(k - 1) :
            /\ records[j].operation \in {"add", "modify"}
            /\ records[j].this_hash = records[k].other_hash

\* C37: when a modify record, or a remove record with other_hash, names a
\* hash that no earlier add or modify record of the replayed directories
\* brought in, Restore raises: no commit action is queued and the target is
\* as it was
C37_UnknownOriginalFailsEarly ==
    (oRestore.count > 0
        /\ \E k \in DOMAIN ReplayedRecords(oRestore.replayed) :
                NamesUnknownOriginal(ReplayedRecords(oRestore.replayed), k))
        => /\ oRestore.result = "raised"
           /\ oRestore.actions = << >>
           /\ oRestore.failed = NoOrigin
           /\ oTarget = oRestore.before

C37_Witness ==
    /\ oRestore.count > 0
    /\ ~oRestore.dry_run
    /\ oRestore.before # {}
    /\ oRestore.overwrite
    /\ Len(oRestore.replayed) > 1
    /\ \E k \in DOMAIN ReplayedRecords(oRestore.replayed) :
            /\ NamesUnknownOriginal(ReplayedRecords(oRestore.replayed), k)
            /\ k > 1
    /\ oRestore.result = "raised"
    /\ oTarget = oRestore.before

\* C38: the directory of an offsite Backup run is named as a primary (no
\* DELTA_SUFFIX) exactly when the snapshot the run diffs against has no
\* entries: there is no committed snapshot, force is given, or the committed
\* snapshot is empty
C38_PrimaryIffBaselineEmpty ==
    bPc \notin {"idle", "call", "nodiffs"}
        => (bPrimary <=> Enum(Baseline(bStart, bForce)) = {})

\* C39: for all snapshots S and T that satisfy the node invariants, the
\* diffs of T against S persisted and loaded again (explicitly_added is
\* inferred from the absence of children) are the diffs of T against S
C39_ReloadKeepsDiff ==
    dDone => Diff(dThis, FromJson(ToJson(dOther)), dCompareHashes) = dDiffs
=============================================================================
